---- MODULE Spec2Model ----
(***************************************************************************)
(* Model of the executive-team decision engine:                            *)
(*   src/src/executive_team_orchestrator.py  (ExecutiveTeamOrchestrator)   *)
(*   src/src/consensus/consensus_builder.py  (ConsensusBuilder)            *)
(*                                                                         *)
(* Numbers.  Agreement levels, thresholds and support values are Python    *)
(* floats in [0,1].  The model works in exact arithmetic: an agreement     *)
(* level is an integer number of hundredths, a support value is the exact  *)
(* fraction num/den of hundredths, [num |-> n, den |-> d] with d > 0, and  *)
(* comparisons are made by cross-multiplication.  A contribution weight    *)
(* min(1.0, priority/5.0) is an integer number of fifths.                  *)
(***************************************************************************)
EXTENDS Integers, Sequences, FiniteSets, TLC

\* ------------------------------------------------------------------ bounds

\* Largest max_resolution_attempts among the configurations explored.
MaxAttempts == 3
\* Largest number of decision requests a caller submits to one orchestrator.
MaxRuns == 2
\* Largest number of build_consensus calls made on one builder directly.
MaxBuilds == 2
\* The most critical conflicts handed to a direct call of _estimate_new_support.
MaxCritical == 4
\* The most participation records handed to a direct call of
\* _calculate_support_metrics.
MaxParticipants == 2
\* The most conflicts in a summary handed to a direct call of
\* _select_resolution_method.
MaxConflicts == 4

\* ------------------------------------------------------- program constants

PriorityScale == 5
LeadWeightFloor == 4
DefaultPriority == 5
FallbackPriority == 1
DefaultAgreement == 50
DefaultConfidence == 70
VetoAgreement == 20
StrongConsensusAt == 90
GeneralConsensusAt == 75
MajorityAgreementAt == 60
DividedOpinionAt == 40
SupportiveAt == 70
OpposingAt == 30
SupportingAbove == 60
OpposingBelow == 40
RoleGapMedium == 40
RoleGapHigh == 60
SupportCap == 95
PenaltyPerCritical == 5
PenaltyCap == 15

\* ----------------------------------------------------------------- helpers

Min(a, b) == IF a <= b THEN a ELSE b
Max(a, b) == IF a >= b THEN a ELSE b
Abs(a) == IF a >= 0 THEN a ELSE 0 - a

RECURSIVE SeqSum(_)
SeqSum(s) == IF s = <<>> THEN 0 ELSE Head(s) + SeqSum(Tail(s))

RECURSIVE Flatten(_)
Flatten(ss) == IF ss = <<>> THEN <<>> ELSE Head(ss) \o Flatten(Tail(ss))

\* dict.get(key, default)
Get(d, k, default) == IF k \in DOMAIN d THEN d[k] ELSE default

\* An exact value num/den (hundredths), and its comparisons with thresholds.
Pct(n, d) == [num |-> n, den |-> d]
PctGE(p, t) == p.num >= t * p.den
PctLT(p, t) == p.num < t * p.den

\* str.lower() on the concern texts the evaluators of the model use.
Lower(c) ==
    CASE c = "Cost" -> "cost"
      [] c = "COST" -> "cost"
      [] c = "Risk" -> "risk"
      [] OTHER -> c

\* The order of Python's str comparison on the role names of the model.
RoleRank(r) ==
    CASE r = "finance" -> 1
      [] r = "risk" -> 2
      [] r = "strategy" -> 3
      [] OTHER -> 4

\* ---------------------------------------------------- ConsensusBuilder

\* Faulty variant: an empty evaluation set counts as full support.
calculate_support_metrics_silence_consents(evaluations, participating_executives) ==
    IF evaluations = <<>>
    THEN [weighted_support |-> Pct(100, 1), unweighted_support |-> Pct(100, 1),
          participation_rate |-> Pct(0, 1),
          strong_support |-> 0, moderate_support |-> 0, neutral |-> 0,
          moderate_opposition |-> 0, strong_opposition |-> 0]
    ELSE
      LET n == Len(evaluations)
          Count(lo, hi) ==
              Cardinality({i \in 1..n : evaluations[i].agreement_level >= lo
                                        /\ evaluations[i].agreement_level < hi})
          unweighted == Pct(SeqSum([i \in 1..n |-> evaluations[i].agreement_level]), n)
          \* next(p for p in participating_executives if p.executive_id == id, None)
          Matches(e) == {j \in 1..Len(participating_executives) :
                           participating_executives[j].executive_id = e.evaluator_id}
          Info(e) == participating_executives[CHOOSE j \in Matches(e) :
                                                \A k \in Matches(e) : j <= k]
          Weight(e) == IF Matches(e) = {} THEN 0
                       ELSE Info(e).expertise_relevance * Info(e).contribution_weight
          weighted_sum == SeqSum([i \in 1..n |->
                              evaluations[i].agreement_level * Weight(evaluations[i])])
          total_weight == SeqSum([i \in 1..n |-> Weight(evaluations[i])])
          expected == Len(participating_executives)
      IN [weighted_support |-> IF total_weight > 0
                               THEN Pct(weighted_sum, total_weight)
                               ELSE unweighted,
          unweighted_support |-> unweighted,
          participation_rate |-> IF expected > 0 THEN Pct(100 * n, expected)
                                 ELSE Pct(100, 1),
          strong_support |-> Count(80, 101),
          moderate_support |-> Count(60, 80),
          neutral |-> Count(40, 60),
          moderate_opposition |-> Count(20, 40),
          strong_opposition |-> Count(0, 20)]

\* Faulty variant: the weighted sum is not divided by the total weight.
calculate_support_metrics_undivided(evaluations, participating_executives) ==
    IF evaluations = <<>>
    THEN [weighted_support |-> Pct(0, 1), unweighted_support |-> Pct(0, 1),
          participation_rate |-> Pct(0, 1),
          strong_support |-> 0, moderate_support |-> 0, neutral |-> 0,
          moderate_opposition |-> 0, strong_opposition |-> 0]
    ELSE
      LET n == Len(evaluations)
          Count(lo, hi) ==
              Cardinality({i \in 1..n : evaluations[i].agreement_level >= lo
                                        /\ evaluations[i].agreement_level < hi})
          unweighted == Pct(SeqSum([i \in 1..n |-> evaluations[i].agreement_level]), n)
          \* next(p for p in participating_executives if p.executive_id == id, None)
          Matches(e) == {j \in 1..Len(participating_executives) :
                           participating_executives[j].executive_id = e.evaluator_id}
          Info(e) == participating_executives[CHOOSE j \in Matches(e) :
                                                \A k \in Matches(e) : j <= k]
          Weight(e) == IF Matches(e) = {} THEN 0
                       ELSE Info(e).expertise_relevance * Info(e).contribution_weight
          weighted_sum == SeqSum([i \in 1..n |->
                              evaluations[i].agreement_level * Weight(evaluations[i])])
          total_weight == SeqSum([i \in 1..n |-> Weight(evaluations[i])])
          expected == Len(participating_executives)
      IN [weighted_support |-> IF total_weight > 0
                               THEN Pct(weighted_sum, PriorityScale * PriorityScale)
                               ELSE unweighted,
          unweighted_support |-> unweighted,
          participation_rate |-> IF expected > 0 THEN Pct(100 * n, expected)
                                 ELSE Pct(100, 1),
          strong_support |-> Count(80, 101),
          moderate_support |-> Count(60, 80),
          neutral |-> Count(40, 60),
          moderate_opposition |-> Count(20, 40),
          strong_opposition |-> Count(0, 20)]

\* ConsensusBuilder._calculate_support_metrics
calculate_support_metrics(evaluations, participating_executives) ==
    IF evaluations = <<>>
    THEN [weighted_support |-> Pct(0, 1), unweighted_support |-> Pct(0, 1),
          participation_rate |-> Pct(0, 1),
          strong_support |-> 0, moderate_support |-> 0, neutral |-> 0,
          moderate_opposition |-> 0, strong_opposition |-> 0]
    ELSE
      LET n == Len(evaluations)
          Count(lo, hi) ==
              Cardinality({i \in 1..n : evaluations[i].agreement_level >= lo
                                        /\ evaluations[i].agreement_level < hi})
          unweighted == Pct(SeqSum([i \in 1..n |-> evaluations[i].agreement_level]), n)
          \* next(p for p in participating_executives if p.executive_id == id, None)
          Matches(e) == {j \in 1..Len(participating_executives) :
                           participating_executives[j].executive_id = e.evaluator_id}
          Info(e) == participating_executives[CHOOSE j \in Matches(e) :
                                                \A k \in Matches(e) : j <= k]
          Weight(e) == IF Matches(e) = {} THEN 0
                       ELSE Info(e).expertise_relevance * Info(e).contribution_weight
          weighted_sum == SeqSum([i \in 1..n |->
                              evaluations[i].agreement_level * Weight(evaluations[i])])
          total_weight == SeqSum([i \in 1..n |-> Weight(evaluations[i])])
          expected == Len(participating_executives)
      IN [weighted_support |-> IF total_weight > 0
                               THEN Pct(weighted_sum, total_weight)
                               ELSE unweighted,
          unweighted_support |-> unweighted,
          participation_rate |-> IF expected > 0 THEN Pct(100 * n, expected)
                                 ELSE Pct(100, 1),
          strong_support |-> Count(80, 101),
          moderate_support |-> Count(60, 80),
          neutral |-> Count(40, 60),
          moderate_opposition |-> Count(20, 40),
          strong_opposition |-> Count(0, 20)]

\* Faulty variant: the tests for general_consensus and majority_agreement are
\* made in the wrong order.
determine_consensus_level_misordered(support_percentage) ==
    IF PctGE(support_percentage, StrongConsensusAt) THEN "strong_consensus"
    ELSE IF PctGE(support_percentage, MajorityAgreementAt) THEN "majority_agreement"
    ELSE IF PctGE(support_percentage, GeneralConsensusAt) THEN "general_consensus"
    ELSE IF PctGE(support_percentage, DividedOpinionAt) THEN "divided_opinion"
    ELSE "strong_disagreement"

\* ConsensusBuilder._determine_consensus_level
determine_consensus_level(support_percentage) ==
    IF PctGE(support_percentage, StrongConsensusAt) THEN "strong_consensus"
    ELSE IF PctGE(support_percentage, GeneralConsensusAt) THEN "general_consensus"
    ELSE IF PctGE(support_percentage, MajorityAgreementAt) THEN "majority_agreement"
    ELSE IF PctGE(support_percentage, DividedOpinionAt) THEN "divided_opinion"
    ELSE "strong_disagreement"

\* sorted(items, key=..., reverse=True): stable, keys[i] is the key of items[i].
SortDesc(items, keys) ==
    LET n == Len(items)
        Pos(i) == 1 + Cardinality({j \in 1..n : keys[j] > keys[i]
                                               \/ (keys[j] = keys[i] /\ j < i)})
    IN [p \in 1..n |-> items[CHOOSE i \in 1..n : Pos(i) = p]]

\* {}
EmptyDict == [x \in {} |-> x]

\* dict[key] = value
Put(d, k, v) == [x \in (DOMAIN d) \cup {k} |-> IF x = k THEN v ELSE d[x]]

\* The elements of s that belong to keep, in the order of s.
RECURSIVE Pick(_, _)
Pick(s, keep) ==
    IF s = <<>> THEN <<>>
    ELSE IF Head(s) \in keep THEN <<Head(s)>> \o Pick(Tail(s), keep)
    ELSE Pick(Tail(s), keep)

\* The concern dictionary of _identify_conflicts, as its entries in insertion
\* order: one entry per lower-cased text, counting every mention.
RECURSIVE count_concerns(_, _)
count_concerns(mentions, acc) ==
    IF mentions = <<>> THEN acc
    ELSE
      LET m == Head(mentions)
          key == Lower(m.concern)
          at == {k \in 1..Len(acc) : acc[k].key = key}
      IN IF at # {}
         THEN LET k == CHOOSE x \in at : TRUE
              IN count_concerns(Tail(mentions),
                     [acc EXCEPT ![k].count = @ + 1,
                                 ![k].evaluators = Append(@, m.evaluator)])
         ELSE count_concerns(Tail(mentions),
                     Append(acc, [key |-> key, concern |-> m.concern, count |-> 1,
                                  evaluators |-> <<m.evaluator>>]))

concern_mentions(evaluations) ==
    Flatten([i \in 1..Len(evaluations) |->
               [j \in 1..Len(evaluations[i].concerns) |->
                  [concern |-> evaluations[i].concerns[j],
                   evaluator |-> evaluations[i].evaluator_id]]])

\* The keys of a dictionary built by first appearance: the distinct elements of
\* s in the order in which they first occur.
RECURSIVE Distinct(_, _)
Distinct(s, seen) ==
    IF s = <<>> THEN <<>>
    ELSE IF Head(s) \in seen THEN Distinct(Tail(s), seen)
    ELSE <<Head(s)>> \o Distinct(Tail(s), seen \cup {Head(s)})

\* Faulty variant: the first role of a pair is always named as supporting.
identify_role_conflicts_first_supports(evaluations) ==
    LET n == Len(evaluations)
        roles == Distinct([i \in 1..n |-> evaluations[i].evaluator_role], {})
        Members(r) == {i \in 1..n : evaluations[i].evaluator_role = r}
        Total(r) == SeqSum(Pick([i \in 1..n |->
                              IF i \in Members(r) THEN evaluations[i].agreement_level
                              ELSE -1], 0..100))
        Size(r) == Cardinality(Members(r))
        \* |avg1 - avg2| as the exact fraction gap/(n1*n2)
        Gap(r1, r2) == Abs(Total(r1) * Size(r2) - Total(r2) * Size(r1))
        Both(r1, r2) == Size(r1) * Size(r2)
        Higher(r1, r2) == Total(r1) * Size(r2) > Total(r2) * Size(r1)
        Pair(r1, r2) ==
            IF RoleRank(r1) >= RoleRank(r2) THEN <<>>
            ELSE IF Gap(r1, r2) > RoleGapMedium * Both(r1, r2)
            THEN << [type |-> "role_based",
                     description |-> <<"Systematic disagreement between",
                                       IF Higher(r1, r2) THEN r1 ELSE r2,
                                       IF Higher(r1, r2) THEN r2 ELSE r1>>,
                     supporting_role |-> r1,
                     opposing_role |-> r2,
                     agreement_difference |-> Pct(Gap(r1, r2), Both(r1, r2)),
                     severity |-> IF Gap(r1, r2) > RoleGapHigh * Both(r1, r2)
                                  THEN "high" ELSE "medium"] >>
            ELSE <<>>
    IN IF Len(roles) > 1
       THEN Flatten([a \in 1..Len(roles) |->
                       Flatten([b \in 1..Len(roles) |-> Pair(roles[a], roles[b])])])
       ELSE <<>>

\* ConsensusBuilder._identify_role_conflicts
identify_role_conflicts(evaluations) ==
    LET n == Len(evaluations)
        roles == Distinct([i \in 1..n |-> evaluations[i].evaluator_role], {})
        Members(r) == {i \in 1..n : evaluations[i].evaluator_role = r}
        Total(r) == SeqSum(Pick([i \in 1..n |->
                              IF i \in Members(r) THEN evaluations[i].agreement_level
                              ELSE -1], 0..100))
        Size(r) == Cardinality(Members(r))
        \* |avg1 - avg2| as the exact fraction gap/(n1*n2)
        Gap(r1, r2) == Abs(Total(r1) * Size(r2) - Total(r2) * Size(r1))
        Both(r1, r2) == Size(r1) * Size(r2)
        Higher(r1, r2) == Total(r1) * Size(r2) > Total(r2) * Size(r1)
        Pair(r1, r2) ==
            IF RoleRank(r1) >= RoleRank(r2) THEN <<>>
            ELSE IF Gap(r1, r2) > RoleGapMedium * Both(r1, r2)
            THEN << [type |-> "role_based",
                     description |-> <<"Systematic disagreement between",
                                       IF Higher(r1, r2) THEN r1 ELSE r2,
                                       IF Higher(r1, r2) THEN r2 ELSE r1>>,
                     supporting_role |-> IF Higher(r1, r2) THEN r1 ELSE r2,
                     opposing_role |-> IF Higher(r1, r2) THEN r2 ELSE r1,
                     agreement_difference |-> Pct(Gap(r1, r2), Both(r1, r2)),
                     severity |-> IF Gap(r1, r2) > RoleGapHigh * Both(r1, r2)
                                  THEN "high" ELSE "medium"] >>
            ELSE <<>>
    IN IF Len(roles) > 1
       THEN Flatten([a \in 1..Len(roles) |->
                       Flatten([b \in 1..Len(roles) |-> Pair(roles[a], roles[b])])])
       ELSE <<>>

\* The shared-concern pass of _identify_conflicts: the conflicts, and for each
\* whether it is critical.
shared_concern_conflicts(evaluations) ==
    LET n == Len(evaluations)
        entries == count_concerns(concern_mentions(evaluations), <<>>)
        frequent == Pick([k \in 1..Len(entries) |->
                            IF entries[k].count > 1 THEN k ELSE 0], 1..Len(entries))
    IN [k \in 1..Len(frequent) |->
          [conflict |-> [type |-> "shared_concern",
                         description |-> entries[frequent[k]].concern,
                         affected_executives |-> entries[frequent[k]].evaluators,
                         severity |-> IF 3 * entries[frequent[k]].count > n
                                      THEN "medium" ELSE "low"],
           critical |-> 2 * entries[frequent[k]].count > n]]

\* Faulty variant: one group of two is enough for high severity.
polarization_conflicts_either_group(evaluations) ==
    LET n == Len(evaluations)
        ids(lo, hi) == Pick([i \in 1..n |->
                               IF evaluations[i].agreement_level >= lo
                                  /\ evaluations[i].agreement_level <= hi
                               THEN evaluations[i].evaluator_id ELSE ""],
                            {evaluations[i].evaluator_id : i \in 1..n})
        supportive == ids(SupportiveAt, 100)
        opposing == ids(0, OpposingAt)
    IN IF supportive # <<>> /\ opposing # <<>>
       THEN << [type |-> "polarized_opinion",
                description |-> "Significant divide between supporting and opposing executives",
                supporting_executives |-> supportive,
                opposing_executives |-> opposing,
                severity |-> IF Len(supportive) > 1 \/ Len(opposing) > 1
                             THEN "high" ELSE "medium"] >>
       ELSE <<>>

\* The polarization pass of _identify_conflicts.
polarization_conflicts(evaluations) ==
    LET n == Len(evaluations)
        ids(lo, hi) == Pick([i \in 1..n |->
                               IF evaluations[i].agreement_level >= lo
                                  /\ evaluations[i].agreement_level <= hi
                               THEN evaluations[i].evaluator_id ELSE ""],
                            {evaluations[i].evaluator_id : i \in 1..n})
        supportive == ids(SupportiveAt, 100)
        opposing == ids(0, OpposingAt)
    IN IF supportive # <<>> /\ opposing # <<>>
       THEN << [type |-> "polarized_opinion",
                description |-> "Significant divide between supporting and opposing executives",
                supporting_executives |-> supportive,
                opposing_executives |-> opposing,
                severity |-> IF Len(supportive) > 1 /\ Len(opposing) > 1
                             THEN "high" ELSE "medium"] >>
       ELSE <<>>

\* Faulty variant: a single evaluation is searched for conflicts too.
identify_conflicts_unguarded(evaluations) ==
    IF Len(evaluations) < 1
    THEN [all_conflicts |-> <<>>, critical_conflicts |-> <<>>]
    ELSE
      LET shared == shared_concern_conflicts(evaluations)
          polar == polarization_conflicts(evaluations)
          role_conflicts == identify_role_conflicts(evaluations)
          High(cs) == Flatten([k \in 1..Len(cs) |->
                         IF cs[k].severity = "high" THEN <<cs[k]>> ELSE <<>>])
      IN [all_conflicts |->
              [k \in 1..Len(shared) |-> shared[k].conflict] \o polar \o role_conflicts,
          critical_conflicts |->
              Flatten([k \in 1..Len(shared) |->
                         IF shared[k].critical THEN <<shared[k].conflict>> ELSE <<>>])
              \o High(polar) \o High(role_conflicts)]

\* ConsensusBuilder._identify_conflicts
identify_conflicts(evaluations) ==
    IF Len(evaluations) < 2
    THEN [all_conflicts |-> <<>>, critical_conflicts |-> <<>>]
    ELSE
      LET shared == shared_concern_conflicts(evaluations)
          polar == polarization_conflicts(evaluations)
          role_conflicts == identify_role_conflicts(evaluations)
          High(cs) == Flatten([k \in 1..Len(cs) |->
                         IF cs[k].severity = "high" THEN <<cs[k]>> ELSE <<>>])
      IN [all_conflicts |->
              [k \in 1..Len(shared) |-> shared[k].conflict] \o polar \o role_conflicts,
          critical_conflicts |->
              Flatten([k \in 1..Len(shared) |->
                         IF shared[k].critical THEN <<shared[k].conflict>> ELSE <<>>])
              \o High(polar) \o High(role_conflicts)]

\* Faulty variant: only conflicts of high severity count as polarized or
\* role-based.
select_resolution_method_high_only(conflicts) ==
    LET all == conflicts.all_conflicts
        Of(t) == Cardinality({k \in 1..Len(all) : all[k].type = t})
        High(t) == Cardinality({k \in 1..Len(all) :
                                   all[k].type = t /\ all[k].severity = "high"})
    IN IF 2 * Of("shared_concern") > Len(all) THEN "integrative"
       ELSE IF High("polarized_opinion") > 0 THEN "structured_debate"
       ELSE IF High("role_based") > 0 THEN "weighted_voting"
       ELSE "evidence_based"

\* Faulty variant: role-based conflicts are looked for before polarized ones.
select_resolution_method_roles_first(conflicts) ==
    LET all == conflicts.all_conflicts
        Of(t) == Cardinality({k \in 1..Len(all) : all[k].type = t})
    IN IF 2 * Of("shared_concern") > Len(all) THEN "integrative"
       ELSE IF Of("role_based") > 0 THEN "weighted_voting"
       ELSE IF Of("polarized_opinion") > 0 THEN "structured_debate"
       ELSE "evidence_based"

\* ConsensusBuilder._select_resolution_method
select_resolution_method(conflicts) ==
    LET all == conflicts.all_conflicts
        Of(t) == Cardinality({k \in 1..Len(all) : all[k].type = t})
    IN IF 2 * Of("shared_concern") > Len(all) THEN "integrative"
       ELSE IF Of("polarized_opinion") > 0 THEN "structured_debate"
       ELSE IF Of("role_based") > 0 THEN "weighted_voting"
       ELSE "evidence_based"

\* The method_effectiveness table of _estimate_new_support (hundredths), with
\* the default of its .get().
method_effectiveness(method) ==
    CASE method = "evidence_based" -> 15
      [] method = "weighted_voting" -> 20
      [] method = "delphi_method" -> 25
      [] method = "compromise" -> 15
      [] method = "integrative" -> 30
      [] method = "escalation" -> 5
      [] method = "structured_debate" -> 20
      [] method = "dialectical_inquiry" -> 25
      [] OTHER -> 15

\* Faulty variant: the estimate is not capped.
estimate_new_support_uncapped(current_support, conflicts, resolution_method) ==
    LET base_improvement == method_effectiveness(resolution_method)
        critical_conflict_count == Len(conflicts.critical_conflicts)
        conflict_penalty == Min(PenaltyPerCritical * critical_conflict_count, PenaltyCap)
        d == current_support.den
        new_support == current_support.num + (base_improvement - conflict_penalty) * d
    IN Pct(Max(current_support.num, new_support), d)

\* ConsensusBuilder._estimate_new_support
estimate_new_support(current_support, conflicts, resolution_method) ==
    LET base_improvement == method_effectiveness(resolution_method)
        critical_conflict_count == Len(conflicts.critical_conflicts)
        conflict_penalty == Min(PenaltyPerCritical * critical_conflict_count, PenaltyCap)
        d == current_support.den
        new_support == Min(SupportCap * d,
                           current_support.num + (base_improvement - conflict_penalty) * d)
    IN Pct(Max(current_support.num, new_support), d)

\* The weighted_concerns dictionary of the weighted-voting branch, as entries in
\* insertion order: keyed by the concern text as written.
RECURSIVE weigh_concerns(_, _)
weigh_concerns(mentions, acc) ==
    IF mentions = <<>> THEN acc
    ELSE
      LET m == Head(mentions)
          at == {k \in 1..Len(acc) : acc[k].concern = m.concern}
      IN IF at # {}
         THEN LET k == CHOOSE x \in at : TRUE
              IN weigh_concerns(Tail(mentions), [acc EXCEPT ![k].weight = @ + m.weight])
         ELSE weigh_concerns(Tail(mentions),
                             Append(acc, [concern |-> m.concern, weight |-> m.weight]))

\* ConsensusBuilder._apply_resolution_method: the deep copy of the
\* recommendation with the method's annotation.
apply_resolution_method(method, recommendation, evaluations, conflicts, context) ==
    LET n == Len(evaluations)
        dsa == recommendation.domain_specific_analyses
        all_suggestions == Flatten([i \in 1..n |-> evaluations[i].suggestions])
        weighted == weigh_concerns(
            Flatten([i \in 1..n |->
                [j \in 1..Len(evaluations[i].concerns) |->
                    [concern |-> evaluations[i].concerns[j],
                     weight |-> evaluations[i].expertise_level
                                * evaluations[i].confidence]]]), <<>>)
        sorted == SortDesc(weighted, [k \in 1..Len(weighted) |-> weighted[k].weight])
        top_concerns == SubSeq(sorted, 1, Min(2, Len(sorted)))
        supporting_args == Flatten([i \in 1..n |->
            IF evaluations[i].agreement_level >= SupportiveAt
            THEN evaluations[i].supporting_arguments ELSE <<>>])
        opposing_args == Flatten([i \in 1..n |->
            IF evaluations[i].agreement_level < SupportiveAt
               /\ evaluations[i].agreement_level <= OpposingAt
            THEN evaluations[i].concerns ELSE <<>>])
    IN CASE method = "integrative" ->
              IF all_suggestions # <<>>
              THEN [recommendation EXCEPT !.domain_specific_analyses =
                      Put(dsa, "consensus_modifications",
                          [integrated_suggestions |-> all_suggestions,
                           modification_note |->
                               [listed |-> SubSeq(all_suggestions, 1,
                                                  Min(3, Len(all_suggestions))),
                                more |-> Max(Len(all_suggestions) - 3, 0)]])]
              ELSE recommendation
         [] method = "weighted_voting" ->
              IF top_concerns # <<>>
              THEN [recommendation EXCEPT !.domain_specific_analyses =
                      Put(dsa, "weighted_voting_adjustments",
                          [top_concerns_addressed |->
                               [k \in 1..Len(top_concerns) |-> top_concerns[k].concern],
                           adjustment_note |->
                               "Recommendation adjusted to address highest-weighted concerns"])]
              ELSE recommendation
         [] method = "structured_debate" ->
              [recommendation EXCEPT !.domain_specific_analyses =
                  Put(dsa, "structured_debate_outcome",
                      [supporting_arguments |-> supporting_args,
                       opposing_arguments |-> opposing_args,
                       debate_outcome |->
                           "Recommendation adjusted to acknowledge valid opposing points while maintaining core direction"])]
         [] OTHER ->
              [recommendation EXCEPT !.uncertainty_factors =
                  Append(@, "Resolution requires additional evidence to address factual disagreements")]

\* [e.evaluator_id for e in evaluations if e.agreement_level in levels]
evaluator_ids(evaluations, levels) ==
    Flatten([i \in 1..Len(evaluations) |->
        IF evaluations[i].agreement_level \in levels
        THEN <<evaluations[i].evaluator_id>> ELSE <<>>])

\* ConsensusBuilder._create_consensus_outcome (the timestamp is left out)
create_consensus_outcome(recommendation, support_metrics, conflicts, resolution_method_description, modified, modification_summary) ==
    [recommendation |-> recommendation,
     consensus_level |-> determine_consensus_level(support_metrics.weighted_support),
     support_percentage |-> support_metrics.weighted_support,
     supporting_executives |-> <<>>,
     opposing_executives |-> <<>>,
     abstaining_executives |-> <<>>,
     key_conflicts |-> conflicts.critical_conflicts,
     resolution_method |-> resolution_method_description,
     modified_from_original |-> modified,
     modification_summary |-> modification_summary]

\* Faulty variant: any conflict, critical or not, blocks the direct acceptance.
consensus_path_any_conflict(support_metrics, conflicts, consensus_threshold) ==
    IF PctGE(support_metrics.weighted_support, consensus_threshold)
       /\ conflicts.all_conflicts = <<>>
    THEN "direct"
    ELSE IF conflicts.all_conflicts # <<>> THEN "resolved"
    ELSE "insufficient"

\* The branch build_consensus takes.
consensus_path(support_metrics, conflicts, consensus_threshold) ==
    IF PctGE(support_metrics.weighted_support, consensus_threshold)
       /\ conflicts.critical_conflicts = <<>>
    THEN "direct"
    ELSE IF conflicts.all_conflicts # <<>> THEN "resolved"
    ELSE "insufficient"

\* ConsensusBuilder.build_consensus: the outcome it returns (and appends to its
\* decision history).
build_consensus(recommendation, executive_evaluations, decision_context, participating_executives, consensus_threshold) ==
    LET support_metrics == calculate_support_metrics(executive_evaluations,
                                                     participating_executives)
        conflicts == identify_conflicts(executive_evaluations)
        path == consensus_path(support_metrics, conflicts, consensus_threshold)
        resolution_method == select_resolution_method(conflicts)
        estimated_new_support == estimate_new_support(support_metrics.weighted_support,
                                                      conflicts, resolution_method)
    IN CASE path = "direct" ->
              create_consensus_outcome(recommendation, support_metrics, conflicts,
                  "Direct consensus without conflict resolution", FALSE, "None")
         [] path = "resolved" ->
              [recommendation |-> apply_resolution_method(resolution_method,
                                      recommendation, executive_evaluations, conflicts,
                                      decision_context),
               consensus_level |-> determine_consensus_level(estimated_new_support),
               support_percentage |-> estimated_new_support,
               supporting_executives |->
                   evaluator_ids(executive_evaluations, {l \in 0..100 : l > SupportingAbove}),
               opposing_executives |->
                   evaluator_ids(executive_evaluations, {l \in 0..100 : l < OpposingBelow}),
               abstaining_executives |->
                   evaluator_ids(executive_evaluations,
                                 {l \in 0..100 : OpposingBelow <= l /\ l <= SupportingAbove}),
               key_conflicts |-> conflicts.critical_conflicts,
               resolution_method |-> resolution_method,
               modified_from_original |-> TRUE,
               modification_summary |-> resolution_method]
         [] OTHER ->
              create_consensus_outcome(recommendation, support_metrics, conflicts,
                  "Insufficient consensus without specific conflicts", FALSE, "None")

\* ------------------------------------------- ExecutiveTeamOrchestrator

\* Faulty variant: deactivated executives are selected like the others.
select_regardless_of_activity(request, executives) ==
    LET n == Len(executives)
        domains == request.required_domains
        MaxPriority(m) ==
            LET ps == {m.role_priority[d] : d \in domains \cap DOMAIN m.role_priority}
                       \cup {0}
            IN CHOOSE p \in ps : \A q \in ps : q <= p
        matching == Flatten([i \in 1..n |->
                       IF MaxPriority(executives[i]) > 0
                       THEN <<[executive |-> executives[i].name,
                               priority |-> MaxPriority(executives[i])]>>
                       ELSE <<>>])
        selected == SortDesc(matching, [i \in 1..Len(matching) |-> matching[i].priority])
    IN IF domains = {}
       THEN [i \in 1..n |->
               [executive |-> executives[i].name, priority |-> DefaultPriority]]
       ELSE IF selected = <<>> /\ n > 0
       THEN <<[executive |-> executives[1].name, priority |-> FallbackPriority]>>
       ELSE selected

\* ExecutiveTeamOrchestrator._select_relevant_executives.  executives is the
\* registry in registration order (the order of the dictionary).
select_relevant_executives(request, executives) ==
    LET n == Len(executives)
        domains == request.required_domains
        active == Flatten([i \in 1..n |->
                     IF executives[i].is_active THEN <<executives[i]>> ELSE <<>>])
        MaxPriority(m) ==
            LET ps == {m.role_priority[d] : d \in domains \cap DOMAIN m.role_priority}
                       \cup {0}
            IN CHOOSE p \in ps : \A q \in ps : q <= p
        matching == Flatten([i \in 1..Len(active) |->
                       IF MaxPriority(active[i]) > 0
                       THEN <<[executive |-> active[i].name,
                               priority |-> MaxPriority(active[i])]>>
                       ELSE <<>>])
        selected == SortDesc(matching, [i \in 1..Len(matching) |-> matching[i].priority])
    IN IF domains = {}
       THEN [i \in 1..Len(active) |->
               [executive |-> active[i].name, priority |-> DefaultPriority]]
       ELSE IF selected = <<>> /\ active # <<>>
       THEN <<[executive |-> active[1].name, priority |-> FallbackPriority]>>
       ELSE selected

\* ExecutiveTeamOrchestrator._select_decision_framework
select_decision_framework(request, config) ==
    IF ~config.auto_select_framework THEN config.default_decision_framework
    ELSE IF request.complexity_level = "simple" THEN "eisenhower_matrix"
    ELSE IF request.complexity_level = "complicated" THEN "kepner_tregoe"
    ELSE IF request.complexity_level = "complex" THEN "cynefin"
    ELSE IF request.complexity_level = "chaotic" THEN "ooda"
    ELSE IF request.urgency >= 4 THEN "ooda"
    ELSE IF request.importance >= 4 THEN "mcda"
    ELSE IF request.statistical_uncertainty THEN "bayesian"
    ELSE config.default_decision_framework

\* framework.name.lower().replace(" ", "_") of register_framework
framework_key(name) ==
    CASE name = "Bayesian Decision Theory" -> "bayesian_decision_theory"
      [] OTHER -> name

\* self.frameworks.get(framework_name, next(iter(self.frameworks.values()))),
\* for a non-empty registry: the name of the framework used.
resolve_framework(framework_name, frameworks) ==
    LET at == {i \in 1..Len(frameworks) : frameworks[i].key = framework_name}
    IN IF at # {} THEN frameworks[CHOOSE i \in at : TRUE].name ELSE frameworks[1].name

\* The role of a registered executive.
role_of(name, executives) ==
    executives[CHOOSE i \in 1..Len(executives) : executives[i].name = name].role

\* ExecutiveTeamOrchestrator._create_participation_records (weights in fifths)
create_participation_records(selected_executives, lead_executive, executives) ==
    [i \in 1..Len(selected_executives) |->
       LET name == selected_executives[i].executive
           contribution_weight == Min(PriorityScale, selected_executives[i].priority)
           weight == IF name = lead_executive
                     THEN Max(contribution_weight, LeadWeightFloor)
                     ELSE contribution_weight
       IN [executive_id |-> name,
           executive_role |-> role_of(name, executives),
           participation_type |-> IF name = lead_executive THEN "recommender"
                                  ELSE "reviewer",
           contribution_weight |-> weight,
           expertise_relevance |-> weight]]

\* ExecutiveTeamOrchestrator._get_executive_evaluation, after the evaluator
\* has answered with evaluation_result.
get_executive_evaluation(name, role, recommendation, priority, evaluation_result) ==
    [recommendation_id |-> recommendation.title,
     evaluator_id |-> name,
     evaluator_role |-> role,
     agreement_level |-> Get(evaluation_result, "agreement_level", DefaultAgreement),
     concerns |-> Get(evaluation_result, "concerns", <<>>),
     suggestions |-> Get(evaluation_result, "suggestions", <<>>),
     supporting_arguments |-> Get(evaluation_result, "supporting_arguments", <<>>),
     expertise_level |-> Min(PriorityScale, priority),
     confidence |-> Get(evaluation_result, "confidence", DefaultConfidence)]

\* Faulty variant: the lead executive is asked for an evaluation too.
evaluation_tasks_with_lead(selected_executives, lead_executive, round) ==
    [i \in 1..Len(selected_executives) |->
        [executive |-> selected_executives[i].executive,
         priority |-> selected_executives[i].priority,
         round |-> round,
         status |-> "running",
         result |-> <<>>]]

\* The evaluator calls _gather_evaluations creates: one per selected executive
\* other than the lead, in selection order.
evaluation_tasks(selected_executives, lead_executive, round) ==
    Flatten([i \in 1..Len(selected_executives) |->
        IF selected_executives[i].executive = lead_executive THEN <<>>
        ELSE <<[executive |-> selected_executives[i].executive,
                priority |-> selected_executives[i].priority,
                round |-> round,
                status |-> "running",
                result |-> <<>>]>>])

\* Faulty variant: the results collected as the calls complete.
gathered_as_completed(tasks, completion_order) ==
    [k \in 1..Len(completion_order) |-> tasks[completion_order[k]].result]

\* asyncio.gather(*evaluation_tasks): the results in the order of the tasks,
\* whatever the order of completion.
gathered_evaluations(tasks, completion_order) ==
    [i \in 1..Len(tasks) |-> tasks[i].result]

\* ExecutiveTeamOrchestrator._check_for_vetos
check_for_vetos(enable_veto, executives, consensus_outcome, evaluations) ==
    LET recommendation_domains == DOMAIN consensus_outcome.recommendation.domain_specific_analyses
        Vetoes(i) == executives[i].is_active
                     /\ executives[i].veto_rights \cap recommendation_domains # {}
                     /\ \E k \in 1..Len(evaluations) :
                           /\ evaluations[k].evaluator_id = executives[i].name
                           /\ evaluations[k].agreement_level < VetoAgreement
        vetoing == {i \in 1..Len(executives) : Vetoes(i)}
        first == CHOOSE i \in vetoing : \A j \in vetoing : i <= j
        evaluation == evaluations[CHOOSE k \in 1..Len(evaluations) :
                          /\ evaluations[k].evaluator_id = executives[first].name
                          /\ evaluations[k].agreement_level < VetoAgreement
                          /\ \A j \in 1..(k - 1) :
                                ~(evaluations[j].evaluator_id = executives[first].name
                                  /\ evaluations[j].agreement_level < VetoAgreement)]
    IN IF ~enable_veto \/ vetoing = {}
       THEN [veto_applied |-> FALSE]
       ELSE [veto_applied |-> TRUE,
             veto_executive |-> executives[first].name,
             veto_role |-> executives[first].role,
             veto_domains |-> executives[first].veto_rights \cap recommendation_domains,
             agreement_level |-> evaluation.agreement_level,
             concerns |-> evaluation.concerns]

\* Steps 8 to 10 of make_decision with one fault, named by rule, in the
\* escalation flag or in the consensus level reported under a veto.
outcome_with(config, executives, request, selected_executives, lead_executive, framework, consensus_outcome, evaluations, resolution_attempts, rule) ==
    LET low_support == PctLT(consensus_outcome.support_percentage,
                             config.human_escalation_threshold)
        veto_result == check_for_vetos(config.enable_veto, executives,
                                       consensus_outcome, evaluations)
        budget_spent == resolution_attempts >= config.max_resolution_attempts
        human_escalated ==
            CASE rule = "veto does not escalate" -> low_support
              [] rule = "a spent budget escalates" ->
                     \/ low_support \/ veto_result.veto_applied
                     \/ (budget_spent /\ consensus_outcome.consensus_level
                                           \in {"divided_opinion", "strong_disagreement"})
              [] rule = "escalate only when the budget is spent" ->
                     (low_support /\ budget_spent) \/ veto_result.veto_applied
              [] OTHER -> low_support \/ veto_result.veto_applied
        consensus ==
            IF rule = "veto lowers the consensus level" /\ veto_result.veto_applied
            THEN [consensus_outcome EXCEPT !.consensus_level = "strong_disagreement"]
            ELSE consensus_outcome
    IN [decision_id |-> request.decision_id,
        recommendation |-> consensus_outcome.recommendation,
        consensus |-> consensus,
        participating_executives |->
            [i \in 1..Len(selected_executives) |-> selected_executives[i].executive],
        selected_framework |-> framework,
        resolution_attempts |-> resolution_attempts,
        decision_request |-> request,
        escalated_to_human |-> human_escalated,
        decision_metrics |->
            [resolution_attempts |-> resolution_attempts,
             final_support_percentage |-> consensus_outcome.support_percentage,
             veto_applied |-> veto_result.veto_applied,
             executive_count |-> Len(selected_executives),
             framework |-> framework,
             lead_executive |-> lead_executive]]

\* Faulty variant: a veto is reported but does not escalate.
decision_outcome_veto_silent(config, executives, request, selected_executives, lead_executive, framework, consensus_outcome, evaluations, resolution_attempts) ==
    outcome_with(config, executives, request, selected_executives, lead_executive, framework, consensus_outcome, evaluations, resolution_attempts, "veto does not escalate")

\* Faulty variant: a veto rewrites the consensus level.
decision_outcome_veto_rewrites(config, executives, request, selected_executives, lead_executive, framework, consensus_outcome, evaluations, resolution_attempts) ==
    outcome_with(config, executives, request, selected_executives, lead_executive, framework, consensus_outcome, evaluations, resolution_attempts, "veto lowers the consensus level")

\* Faulty variant: low support escalates only once the retry budget is spent.
decision_outcome_late_escalation(config, executives, request, selected_executives, lead_executive, framework, consensus_outcome, evaluations, resolution_attempts) ==
    outcome_with(config, executives, request, selected_executives, lead_executive, framework, consensus_outcome, evaluations, resolution_attempts, "escalate only when the budget is spent")

\* Faulty variant: a run that spends its retry budget in disagreement is
\* escalated for that alone.
decision_outcome_spent_budget_escalates(config, executives, request, selected_executives, lead_executive, framework, consensus_outcome, evaluations, resolution_attempts) ==
    outcome_with(config, executives, request, selected_executives, lead_executive, framework, consensus_outcome, evaluations, resolution_attempts, "a spent budget escalates")

\* Steps 8 to 10 of make_decision: the escalation check, the veto check and the
\* DecisionOutcome (query, timestamp and human_feedback are left out).
decision_outcome(config, executives, request, selected_executives, lead_executive, framework, consensus_outcome, evaluations, resolution_attempts) ==
    LET low_support == PctLT(consensus_outcome.support_percentage,
                             config.human_escalation_threshold)
        veto_result == check_for_vetos(config.enable_veto, executives,
                                       consensus_outcome, evaluations)
        human_escalated == low_support \/ veto_result.veto_applied
    IN [decision_id |-> request.decision_id,
        recommendation |-> consensus_outcome.recommendation,
        consensus |-> consensus_outcome,
        participating_executives |->
            [i \in 1..Len(selected_executives) |-> selected_executives[i].executive],
        selected_framework |-> framework,
        resolution_attempts |-> resolution_attempts,
        decision_request |-> request,
        escalated_to_human |-> human_escalated,
        decision_metrics |->
            [resolution_attempts |-> resolution_attempts,
             final_support_percentage |-> consensus_outcome.support_percentage,
             veto_applied |-> veto_result.veto_applied,
             executive_count |-> Len(selected_executives),
             framework |-> framework,
             lead_executive |-> lead_executive]]

\* Faulty variant: the round bound compared with <= instead of <.
needs_resolution_off_by_one(consensus_outcome, resolution_attempts, config) ==
    /\ consensus_outcome.consensus_level \in {"divided_opinion", "strong_disagreement"}
    /\ resolution_attempts <= config.max_resolution_attempts

\* Faulty variant: divided_opinion no longer asks for a resolution round.
needs_resolution_disagreement_only(consensus_outcome, resolution_attempts, config) ==
    /\ consensus_outcome.consensus_level \in {"strong_disagreement"}
    /\ resolution_attempts < config.max_resolution_attempts

\* The while condition of make_decision (step 7).
needs_resolution(consensus_outcome, resolution_attempts, config) ==
    /\ consensus_outcome.consensus_level \in {"divided_opinion", "strong_disagreement"}
    /\ resolution_attempts < config.max_resolution_attempts

\* ------------------------------------------------------------------ inputs

\* The executives a caller registers, in this order (register_executive).
Roster ==
    << [name |-> "ceo", role |-> "strategy",
        role_priority |-> [strategy |-> 5, finance |-> 3],
        veto_rights |-> {}, is_active |-> TRUE],
       [name |-> "cfo", role |-> "finance",
        role_priority |-> [finance |-> 5, risk |-> 2],
        veto_rights |-> {"finance"}, is_active |-> TRUE],
       [name |-> "cro", role |-> "risk",
        role_priority |-> [risk |-> 5, finance |-> 2],
        veto_rights |-> {"risk"}, is_active |-> TRUE] >>

\* ExecutiveTeamConfig values explored.
BaseConfig ==
    [consensus_threshold |-> 70, max_resolution_attempts |-> 3,
     human_escalation_threshold |-> 30, enable_veto |-> TRUE, log_decisions |-> TRUE,
     auto_select_framework |-> TRUE, default_decision_framework |-> "bayesian"]

Configs ==
    {[BaseConfig EXCEPT !.max_resolution_attempts = n] : n \in 1..MaxAttempts}
    \cup {[BaseConfig EXCEPT !.consensus_threshold = 50, !.max_resolution_attempts = 2],
          [BaseConfig EXCEPT !.enable_veto = FALSE, !.human_escalation_threshold = 65,
                             !.max_resolution_attempts = 2],
          [BaseConfig EXCEPT !.log_decisions = FALSE, !.max_resolution_attempts = 1]}

\* DecisionRequest values (the fields the orchestration reads).
Request(id, domains) ==
    [decision_id |-> id, required_domains |-> domains, complexity_level |-> "none",
     urgency |-> 1, importance |-> 1, statistical_uncertainty |-> FALSE]

RequestDomains == {{}, {"finance"}, {"legal"}}

\* What an evaluator may answer (evaluate_recommendation's dictionary).
Supportive ==
    [agreement_level |-> 85, concerns |-> <<>>, suggestions |-> <<>>,
     supporting_arguments |-> <<"roi">>, confidence |-> 85]
Opposed ==
    [agreement_level |-> 30, concerns |-> <<"Cost">>, suggestions |-> <<"phase it">>,
     supporting_arguments |-> <<>>, confidence |-> 80]
StronglyOpposed ==
    [agreement_level |-> 10, concerns |-> <<"cost">>, suggestions |-> <<>>,
     supporting_arguments |-> <<>>, confidence |-> 90]
Terse == [concerns |-> <<"risk">>]

Answers == {Supportive, Opposed, StronglyOpposed}

\* What the lead may propose (analyze's ExecutiveRecommendation): the fields the
\* engine reads or writes; body stands for all the others.
PrimaryRecommendations ==
    {[title |-> "plan", body |-> <<"analysis">>,
      domain_specific_analyses |-> dsa, uncertainty_factors |-> <<>>] :
        dsa \in {EmptyDict, Put(EmptyDict, "risk", [analysis |-> "risk"])}}

\* What the lead may return from integrate_feedback(recommendation, feedback):
\* a revision of the recommendation it was given, with or without a finance
\* analysis added.
Revisions(recommendation, feedback) ==
    {[recommendation EXCEPT !.body = <<"revision of">> \o recommendation.body,
                            !.domain_specific_analyses = dsa] :
        dsa \in {recommendation.domain_specific_analyses,
                 Put(recommendation.domain_specific_analyses, "finance",
                     [analysis |-> "finance"])}}

\* ------------------------------------------------------------------- state

VARIABLES
    config,                 \* self.config
    executives,             \* self.executives, in registration order
    frameworks,             \* self.frameworks, in registration order
    decision_history,       \* self.decision_history
    builder_history,        \* self.consensus_builder.decision_history
    pending,                \* the requests the caller has still to submit
    pc,                     \* where make_decision stands
    request,                \* make_decision's argument
    selected_executives,
    lead_executive,
    framework,
    primary_recommendation,
    recommendation,         \* the recommendation of the current round
    tasks,                  \* the evaluator calls of the current round
    completed,              \* the order in which they finished
    evaluations,
    participating_execs,
    consensus_outcome,
    resolution_attempts,
    build_calls,            \* build_consensus calls of the current run
    returned,               \* what make_decision returned
    error,                  \* the exception make_decision raised
    call,                   \* a direct call of a ConsensusBuilder method
    result                  \* what that call returned

orchestrator == <<config, executives, frameworks, decision_history, builder_history>>
locals == <<request, selected_executives, lead_executive, framework,
            primary_recommendation, recommendation, tasks, completed, evaluations,
            participating_execs, consensus_outcome, resolution_attempts, build_calls>>
probe == <<call, result>>
vars == <<orchestrator, pending, pc, locals, returned, error, probe>>

Unset == [unset |-> TRUE]

LocalsUnset ==
    /\ request = Unset
    /\ selected_executives = <<>>
    /\ lead_executive = ""
    /\ framework = ""
    /\ primary_recommendation = Unset
    /\ recommendation = Unset
    /\ tasks = <<>>
    /\ completed = <<>>
    /\ evaluations = <<>>
    /\ participating_execs = <<>>
    /\ consensus_outcome = Unset
    /\ resolution_attempts = 0
    /\ build_calls = 0

\* The orchestrator as constructed (__init__), and a caller with its requests.
InitWith(configs, workloads) ==
    /\ config \in configs
    /\ executives = <<>>
    /\ frameworks = <<>>
    /\ decision_history = <<>>
    /\ builder_history = <<>>
    /\ pending \in workloads
    /\ pc = "setup"
    /\ LocalsUnset
    /\ returned = Unset
    /\ error = ""
    /\ call = Unset
    /\ result = Unset

Init == InitWith(Configs, {<<Request(1, d)>> : d \in RequestDomains})

\* ----------------------------------------------------------------- actions

\* register_executive, for the next executive of the roster
RegisterExecutive ==
    /\ UNCHANGED probe
    /\ pc = "setup"
    /\ Len(executives) < Len(Roster)
    /\ executives' = Append(executives, Roster[Len(executives) + 1])
    /\ UNCHANGED <<config, frameworks, decision_history, builder_history, pending, pc,
                   locals, returned, error>>

\* register_framework
RegisterFramework ==
    /\ UNCHANGED probe
    /\ pc = "setup"
    /\ frameworks = <<>>
    /\ frameworks' = <<[key |-> framework_key("Bayesian Decision Theory"),
                        name |-> "Bayesian Decision Theory"]>>
    /\ UNCHANGED <<config, executives, decision_history, builder_history, pending, pc,
                   locals, returned, error>>

\* deactivate_executive / reactivate_executive, between decisions
SetActive(name, active) ==
    /\ UNCHANGED probe
    /\ pc \in {"setup", "idle"}
    /\ pending # <<>>
    /\ \E i \in 1..Len(executives) :
          /\ executives[i].name = name
          /\ executives[i].is_active # active
          /\ executives' = [executives EXCEPT ![i].is_active = active]
    /\ UNCHANGED <<config, frameworks, decision_history, builder_history, pending, pc,
                   locals, returned, error>>

DeactivateExecutive == \E i \in 1..Len(Roster) : SetActive(Roster[i].name, FALSE)

ReactivateExecutive == \E i \in 1..Len(Roster) : SetActive(Roster[i].name, TRUE)

\* make_decision, steps 1 to 4 up to the call of lead_executive.analyze
StartDecision ==
    /\ UNCHANGED probe
    /\ pc \in {"setup", "idle"}
    /\ pending # <<>>
    /\ pending' = Tail(pending)
    /\ request' = Head(pending)
    /\ returned' = Unset
    /\ LET selected == select_relevant_executives(Head(pending), executives)
       IN /\ selected_executives' = selected
          /\ IF frameworks = <<>>
             THEN \* next(iter(self.frameworks.values())) on an empty registry
                  /\ pc' = "failed"
                  /\ error' = "StopIteration"
                  /\ UNCHANGED <<framework, lead_executive>>
             ELSE /\ framework' = resolve_framework(
                                     select_decision_framework(Head(pending), config),
                                     frameworks)
                  /\ IF selected = <<>>
                     THEN \* _determine_lead_executive raises
                          /\ pc' = "failed"
                          /\ error' = "ValueError"
                          /\ UNCHANGED lead_executive
                     ELSE /\ pc' = "analyze"
                          /\ error' = ""
                          /\ lead_executive' = selected[1].executive
    /\ UNCHANGED <<orchestrator, primary_recommendation, recommendation, tasks,
                   completed, evaluations, participating_execs, consensus_outcome,
                   resolution_attempts, build_calls>>

\* lead_executive.analyze returns; _gather_evaluations starts the evaluator calls
ProposerAnalyzes(proposals) ==
    /\ UNCHANGED probe
    /\ pc = "analyze"
    /\ \E r \in proposals :
          /\ primary_recommendation' = r
          /\ recommendation' = r
    /\ tasks' = evaluation_tasks(selected_executives, lead_executive, 1)
    /\ completed' = <<>>
    /\ pc' = "gather"
    /\ UNCHANGED <<orchestrator, pending, request, selected_executives, lead_executive,
                   framework, evaluations, participating_execs, consensus_outcome,
                   resolution_attempts, build_calls, returned, error>>

\* One evaluator call returns: executive.evaluate_recommendation answers and
\* _get_executive_evaluation builds the ConsensusEvaluation.
EvaluatorReturns(answers) ==
    /\ UNCHANGED probe
    /\ \E i \in 1..Len(tasks), a \in answers :
          /\ tasks[i].status = "running"
          /\ tasks' = [tasks EXCEPT ![i].status = "done",
                                    ![i].result = get_executive_evaluation(
                                        tasks[i].executive,
                                        role_of(tasks[i].executive, executives),
                                        recommendation, tasks[i].priority, a)]
          /\ completed' = Append(completed, i)
    /\ UNCHANGED <<orchestrator, pending, pc, request, selected_executives,
                   lead_executive, framework, primary_recommendation, recommendation,
                   evaluations, participating_execs, consensus_outcome,
                   resolution_attempts, build_calls, returned, error>>

\* One evaluator call raises (the evaluator fails, or its answer is rejected by
\* ConsensusEvaluation's validation).
EvaluatorRaises ==
    /\ UNCHANGED probe
    /\ \E i \in 1..Len(tasks) :
          /\ tasks[i].status = "running"
          /\ tasks' = [tasks EXCEPT ![i].status = "raised"]
          /\ completed' = Append(completed, i)
    /\ UNCHANGED <<orchestrator, pending, pc, request, selected_executives,
                   lead_executive, framework, primary_recommendation, recommendation,
                   evaluations, participating_execs, consensus_outcome,
                   resolution_attempts, build_calls, returned, error>>

\* One evaluator call will never return.
EvaluatorHangs ==
    /\ UNCHANGED probe
    /\ \E i \in 1..Len(tasks) :
          /\ tasks[i].status = "running"
          /\ tasks' = [tasks EXCEPT ![i].status = "hung"]
    /\ UNCHANGED <<orchestrator, pending, pc, request, selected_executives,
                   lead_executive, framework, primary_recommendation, recommendation,
                   completed, evaluations, participating_execs, consensus_outcome,
                   resolution_attempts, build_calls, returned, error>>

\* Faulty variant: the join returns as soon as one call has returned, with the
\* results there are.
GatherReturnsEarly ==
    /\ UNCHANGED probe
    /\ pc = "gather"
    /\ \E i \in 1..Len(tasks) : tasks[i].status = "done"
    /\ evaluations' = Pick([i \in 1..Len(tasks) |-> tasks[i].result],
                           {tasks[i].result : i \in {j \in 1..Len(tasks) :
                                                        tasks[j].status = "done"}})
    /\ participating_execs' =
          create_participation_records(selected_executives, lead_executive, executives)
    /\ pc' = "build"
    /\ UNCHANGED <<orchestrator, pending, request, selected_executives, lead_executive,
                   framework, primary_recommendation, recommendation, tasks, completed,
                   consensus_outcome, resolution_attempts, build_calls, returned, error>>

\* await asyncio.gather(...) returns: every call has returned.  In the first
\* round _create_participation_records follows (step 6).
GatherReturns ==
    /\ UNCHANGED probe
    /\ pc = "gather"
    /\ \A i \in 1..Len(tasks) : tasks[i].status = "done"
    /\ evaluations' = gathered_evaluations(tasks, completed)
    /\ participating_execs' =
          IF build_calls = 0
          THEN create_participation_records(selected_executives, lead_executive,
                                            executives)
          ELSE participating_execs
    /\ pc' = "build"
    /\ UNCHANGED <<orchestrator, pending, request, selected_executives, lead_executive,
                   framework, primary_recommendation, recommendation, tasks, completed,
                   consensus_outcome, resolution_attempts, build_calls, returned, error>>

\* await asyncio.gather(...) raises: a call has raised, and the exception leaves
\* _gather_evaluations and make_decision.
GatherRaises ==
    /\ UNCHANGED probe
    /\ pc = "gather"
    /\ \E i \in 1..Len(tasks) : tasks[i].status = "raised"
    /\ pc' = "failed"
    /\ error' = "EvaluatorError"
    /\ UNCHANGED <<orchestrator, pending, locals, returned>>

\* consensus_builder.build_consensus (steps 6 and 7) and the round counter
BuildConsensus ==
    /\ UNCHANGED probe
    /\ pc = "build"
    /\ LET outcome == build_consensus(recommendation, evaluations, request,
                                      participating_execs, config.consensus_threshold)
       IN /\ consensus_outcome' = outcome
          /\ builder_history' = Append(builder_history, outcome)
    /\ build_calls' = build_calls + 1
    /\ resolution_attempts' = IF build_calls = 0 THEN 1 ELSE resolution_attempts + 1
    /\ pc' = "loop"
    /\ UNCHANGED <<config, executives, frameworks, decision_history, pending, request,
                   selected_executives, lead_executive, framework,
                   primary_recommendation, recommendation, tasks, completed,
                   evaluations, participating_execs, returned, error>>

\* The while condition holds: the call of lead_executive.integrate_feedback
EnterResolution ==
    /\ UNCHANGED probe
    /\ pc = "loop"
    /\ needs_resolution(consensus_outcome, resolution_attempts, config)
    /\ pc' = "revise"
    /\ UNCHANGED <<orchestrator, pending, locals, returned, error>>

\* Faulty variant: the proposer revises the recommendation of the round before.
ProposerRevisesRevision ==
    /\ UNCHANGED probe
    /\ pc = "revise"
    /\ recommendation' \in Revisions(recommendation, evaluations)
    /\ tasks' = evaluation_tasks(selected_executives, lead_executive,
                                 resolution_attempts + 1)
    /\ completed' = <<>>
    /\ pc' = "gather"
    /\ UNCHANGED <<orchestrator, pending, request, selected_executives, lead_executive,
                   framework, primary_recommendation, evaluations, participating_execs,
                   consensus_outcome, resolution_attempts, build_calls, returned, error>>

\* integrate_feedback returns; _gather_evaluations starts the next evaluator calls
ProposerRevises ==
    /\ UNCHANGED probe
    /\ pc = "revise"
    /\ recommendation' \in Revisions(primary_recommendation, evaluations)
    /\ tasks' = evaluation_tasks(selected_executives, lead_executive,
                                 resolution_attempts + 1)
    /\ completed' = <<>>
    /\ pc' = "gather"
    /\ UNCHANGED <<orchestrator, pending, request, selected_executives, lead_executive,
                   framework, primary_recommendation, evaluations, participating_execs,
                   consensus_outcome, resolution_attempts, build_calls, returned, error>>

\* Faulty variant: the log keeps the latest outcome only.
DecideOverwrites ==
    /\ UNCHANGED probe
    /\ pc = "loop"
    /\ ~needs_resolution(consensus_outcome, resolution_attempts, config)
    /\ LET outcome == decision_outcome(config, executives, request,
                          selected_executives, lead_executive, framework,
                          consensus_outcome, evaluations, resolution_attempts)
       IN /\ returned' = outcome
          /\ decision_history' = IF config.log_decisions
                                 THEN <<outcome>>
                                 ELSE decision_history
    /\ pc' = "done"
    /\ UNCHANGED <<config, executives, frameworks, builder_history, pending, locals,
                   error>>

\* The while condition fails: steps 8 to 11 and the return
Decide ==
    /\ UNCHANGED probe
    /\ pc = "loop"
    /\ ~needs_resolution(consensus_outcome, resolution_attempts, config)
    /\ LET outcome == decision_outcome(config, executives, request,
                          selected_executives, lead_executive, framework,
                          consensus_outcome, evaluations, resolution_attempts)
       IN /\ returned' = outcome
          /\ decision_history' = IF config.log_decisions
                                 THEN Append(decision_history, outcome)
                                 ELSE decision_history
    /\ pc' = "done"
    /\ UNCHANGED <<config, executives, frameworks, builder_history, pending, locals,
                   error>>

\* The caller has the result (or the exception): the call's locals are gone.
Finish ==
    /\ UNCHANGED probe
    /\ pc \in {"done", "failed"}
    /\ pc' = "idle"
    /\ request' = Unset
    /\ selected_executives' = <<>>
    /\ lead_executive' = ""
    /\ framework' = ""
    /\ primary_recommendation' = Unset
    /\ recommendation' = Unset
    /\ tasks' = <<>>
    /\ completed' = <<>>
    /\ evaluations' = <<>>
    /\ participating_execs' = <<>>
    /\ consensus_outcome' = Unset
    /\ resolution_attempts' = 0
    /\ build_calls' = 0
    /\ UNCHANGED <<orchestrator, pending, returned, error>>

Next ==
    \/ RegisterExecutive
    \/ RegisterFramework
    \/ DeactivateExecutive
    \/ ReactivateExecutive
    \/ StartDecision
    \/ ProposerAnalyzes(PrimaryRecommendations)
    \/ EvaluatorReturns(Answers)
    \/ EvaluatorRaises
    \/ EvaluatorHangs
    \/ GatherReturns
    \/ GatherRaises
    \/ BuildConsensus
    \/ EnterResolution
    \/ ProposerRevises
    \/ Decide
    \/ Finish

Spec == Init /\ [][Next]_vars

\* A caller that submits MaxRuns requests one after the other, to an
\* orchestrator that logs its decisions or does not.
RunConfigs ==
    {[BaseConfig EXCEPT !.max_resolution_attempts = 2],
     [BaseConfig EXCEPT !.log_decisions = FALSE, !.max_resolution_attempts = 1]}

InitRuns == InitWith(RunConfigs, {[k \in 1..MaxRuns |-> Request(k, {})]})

\* What the lead proposes to that caller: a recommendation without any domain
\* analysis.
RunRecommendations ==
    {[title |-> "plan", body |-> <<"analysis">>,
      domain_specific_analyses |-> EmptyDict, uncertainty_factors |-> <<>>]}

\* What its evaluators answer: a strong opposition, or an answer that leaves
\* out the agreement level.
RunAnswers == {StronglyOpposed, Terse}

NextRuns ==
    \/ RegisterExecutive
    \/ RegisterFramework
    \/ DeactivateExecutive
    \/ ReactivateExecutive
    \/ StartDecision
    \/ ProposerAnalyzes(RunRecommendations)
    \/ EvaluatorReturns(RunAnswers)
    \/ EvaluatorRaises
    \/ EvaluatorHangs
    \/ GatherReturns
    \/ GatherRaises
    \/ BuildConsensus
    \/ EnterResolution
    \/ ProposerRevises
    \/ Decide
    \/ Finish

SpecRuns == InitRuns /\ [][NextRuns]_vars

\* ------------------------------------ direct calls of the ConsensusBuilder

\* Everything but the builder's history and the call made.
beside_builder == <<config, executives, frameworks, decision_history, pending, pc,
                    locals, returned, error>>

\* The reviewers a caller of the builder has, and its recommender.
Panel ==
    << [id |-> "cfo", role |-> "finance", weight |-> 5],
       [id |-> "cro", role |-> "risk", weight |-> 5],
       [id |-> "cto", role |-> "finance", weight |-> 3] >>

\* A ConsensusEvaluation of a reviewer.
Evaluation(member, level, concerns, suggestions) ==
    [recommendation_id |-> "plan",
     evaluator_id |-> member.id,
     evaluator_role |-> member.role,
     agreement_level |-> level,
     concerns |-> concerns,
     suggestions |-> suggestions,
     supporting_arguments |-> <<>>,
     expertise_level |-> member.weight,
     confidence |-> 80]

\* The positions a reviewer may take: agreement, concerns, suggestions.
Positions ==
    { <<85, <<>>, <<>> >>, <<60, <<"cost">>, <<"phase it">> >>,
      <<10, <<"Cost">>, <<>> >> }

\* The evaluation sets: the first reviewers of the panel, each with a position.
PanelEvaluations ==
    UNION {{[i \in 1..n |-> Evaluation(Panel[i], pos[i][1], pos[i][2], pos[i][3])] :
               pos \in [1..n -> Positions]} : n \in 0..Len(Panel)}

\* The DecisionParticipation records of the recommender and the reviewers.
PanelParticipation(evaluations_in) ==
    << [executive_id |-> "ceo", executive_role |-> "strategy",
        participation_type |-> "recommender",
        contribution_weight |-> 5, expertise_relevance |-> 5] >>
    \o [i \in 1..Len(evaluations_in) |->
          [executive_id |-> Panel[i].id, executive_role |-> Panel[i].role,
           participation_type |-> "reviewer",
           contribution_weight |-> Panel[i].weight,
           expertise_relevance |-> Panel[i].weight]]

Plan ==
    [title |-> "plan", body |-> <<"analysis">>,
     domain_specific_analyses |-> EmptyDict, uncertainty_factors |-> <<>>]

\* Faulty variant: the direct path records its outcome and falls through to
\* the record at the end of build_consensus.
CallBuildConsensusTwice ==
    /\ Len(builder_history) < MaxBuilds
    /\ \E evaluations_in \in PanelEvaluations :
          LET participating == PanelParticipation(evaluations_in)
              outcome == build_consensus(Plan, evaluations_in, Unset, participating,
                                         config.consensus_threshold)
              direct == consensus_path(
                            calculate_support_metrics(evaluations_in, participating),
                            identify_conflicts(evaluations_in),
                            config.consensus_threshold) = "direct"
          IN /\ call' = [method |-> "build_consensus",
                         executive_evaluations |-> evaluations_in,
                         participating_executives |-> participating]
             /\ result' = outcome
             /\ builder_history' = IF direct
                                   THEN builder_history \o <<outcome, outcome>>
                                   ELSE Append(builder_history, outcome)
    /\ UNCHANGED beside_builder

\* ConsensusBuilder.build_consensus, called on a builder with the default
\* threshold.
CallBuildConsensus ==
    /\ Len(builder_history) < MaxBuilds
    /\ \E evaluations_in \in PanelEvaluations :
          LET participating == PanelParticipation(evaluations_in)
              outcome == build_consensus(Plan, evaluations_in, Unset, participating,
                                         config.consensus_threshold)
          IN /\ call' = [method |-> "build_consensus",
                         executive_evaluations |-> evaluations_in,
                         participating_executives |-> participating]
             /\ result' = outcome
             /\ builder_history' = Append(builder_history, outcome)
    /\ UNCHANGED beside_builder

InitBuilder == InitWith({BaseConfig}, {<<>>})

NextBuilder == CallBuildConsensus

SpecBuilder == InitBuilder /\ [][NextBuilder]_vars

\* ------------------------------------------- direct calls of the helpers
\* The helper methods of the builder keep no state: a direct call leaves the
\* builder as it was and only yields a result. The call to make is drawn at the
\* start, and the one step of a behaviour makes it.

beside_probe == <<orchestrator, pending, pc, locals, returned, error>>

\* The members of ConflictResolutionMethod.
Methods ==
    {"evidence_based", "weighted_voting", "delphi_method", "compromise",
     "integrative", "escalation", "structured_debate", "dialectical_inquiry"}

\* Support percentages: every hundredth of [0, 1], and every three-hundredth,
\* as the mean of three agreement levels is.
Supports == {Pct(n, 1) : n \in 0..100} \cup {Pct(n, 3) : n \in 0..300}

\* A conflict summary with k critical conflicts.
CriticalConflicts(k) ==
    LET critical == [i \in 1..k |->
                       [type |-> "shared_concern", description |-> "cost",
                        affected_executives |-> <<"cfo", "cro">>,
                        severity |-> "medium"]]
    IN [all_conflicts |-> critical, critical_conflicts |-> critical]

EstimateCalls ==
    {[method |-> "_estimate_new_support", current_support |-> current_support,
      conflicts |-> CriticalConflicts(k), resolution_method |-> method] :
        current_support \in Supports, k \in 0..MaxCritical, method \in Methods}

CallEstimateNewSupport ==
    /\ call.method = "_estimate_new_support"
    /\ result = Unset
    /\ result' = estimate_new_support(call.current_support, call.conflicts,
                                      call.resolution_method)
    /\ UNCHANGED <<call, beside_probe>>

\* Agreement levels of the evaluations handed to _calculate_support_metrics.
Levels == {0, 50, 100}

\* Evaluation sets: the first reviewers of the panel, each at some level.
LevelEvaluations ==
    UNION {{[i \in 1..n |-> Evaluation(Panel[i], level[i], <<>>, <<>>)] :
               level \in [1..n -> Levels]} : n \in 0..Len(Panel)}

\* Participation records: of a reviewer of the panel or of an executive who
\* gave no evaluation, with contribution weight and expertise relevance in
\* fifths of [0, 1].
ParticipationRecords ==
    {[executive_id |-> id, executive_role |-> "finance",
      participation_type |-> "reviewer",
      contribution_weight |-> w[1], expertise_relevance |-> w[2]] :
        id \in {"cfo", "cro", "coo"},
        w \in {<<0, 0>>, <<5, 0>>, <<3, 5>>, <<5, 5>>}}

ParticipationLists ==
    UNION {[1..n -> ParticipationRecords] : n \in 0..MaxParticipants}

MetricsCalls ==
    {[method |-> "_calculate_support_metrics", evaluations |-> evaluations_in,
      participating_executives |-> participating] :
        evaluations_in \in LevelEvaluations, participating \in ParticipationLists}

CallCalculateSupportMetrics ==
    /\ call.method = "_calculate_support_metrics"
    /\ result = Unset
    /\ result' = calculate_support_metrics(call.evaluations,
                                           call.participating_executives)
    /\ UNCHANGED <<call, beside_probe>>

\* The concerns an evaluation may list: none, one, or the same one twice in
\* different case.
ConcernLists == {<<>>, <<"cost">>, <<"risk">>, <<"cost", "Cost">>}

\* Evaluation sets: the first reviewers of the panel, undecided, each with a
\* list of concerns.
ConcernEvaluations ==
    UNION {{[i \in 1..n |-> Evaluation(Panel[i], 50, listed[i], <<>>)] :
               listed \in [1..n -> ConcernLists]} : n \in 0..Len(Panel)}

\* The reviewers whose opinions are compared: two of one role, two of others.
Board ==
    Panel \o << [id |-> "cso", role |-> "strategy", weight |-> 5] >>

\* Agreement levels at and between the limits of the polarization pass.
OpinionLevels == {0, 30, 50, 70, 100}

\* Evaluation sets: the first reviewers of the board, each at some level, with
\* no concerns.
OpinionEvaluations ==
    UNION {{[i \in 1..n |-> Evaluation(Board[i], level[i], <<>>, <<>>)] :
               level \in [1..n -> OpinionLevels]} : n \in 0..Len(Board)}

ConflictCalls ==
    {[method |-> "_identify_conflicts", evaluations |-> evaluations_in] :
        evaluations_in \in ConcernEvaluations \cup OpinionEvaluations}

CallIdentifyConflicts ==
    /\ call.method = "_identify_conflicts"
    /\ result = Unset
    /\ result' = identify_conflicts(call.evaluations)
    /\ UNCHANGED <<call, beside_probe>>

\* The types a conflict may have: the three the selector knows and one it does
\* not.
ConflictTypes == {"shared_concern", "polarized_opinion", "role_based", "factual"}

\* Conflict summaries: any sequence of conflicts of these types.
ConflictSummaries ==
    {[all_conflicts |-> [k \in 1..Len(types) |->
                            [type |-> types[k], severity |-> "medium"]],
      critical_conflicts |-> <<>>] :
        types \in UNION {[1..n -> ConflictTypes] : n \in 0..MaxConflicts}}

SelectorCalls ==
    {[method |-> "_select_resolution_method", conflicts |-> summary] :
        summary \in ConflictSummaries}

CallSelectResolutionMethod ==
    /\ call.method = "_select_resolution_method"
    /\ result = Unset
    \* the member of ConflictResolutionMethod returned, with its value
    /\ result' = [value |-> select_resolution_method(call.conflicts)]
    /\ UNCHANGED <<call, beside_probe>>

\* A recommendation as an executive's analysis gives it, with an analysis of
\* its own domain and an uncertainty factor.
Analysed ==
    [Plan EXCEPT !.domain_specific_analyses = Put(EmptyDict, "risk", [analysis |-> "risk"]),
                 !.uncertainty_factors = <<"demand">>]

\* The evaluations of an earlier round: one reviewer for, one against with a
\* concern and a suggestion.
EarlierRound ==
    << Evaluation(Panel[1], 85, <<>>, <<>>),
       Evaluation(Panel[2], 10, <<"cost">>, <<"defer it">>) >>

\* The recommendations handed to _apply_resolution_method: those of an
\* analysis, and those carried by the outcome of an earlier resolution.
Recommendations ==
    {Plan, Analysed}
    \cup {apply_resolution_method(method, Analysed, EarlierRound,
                                  CriticalConflicts(0), Unset) : method \in Methods}

ResolutionCalls ==
    {[method |-> "_apply_resolution_method", resolution_method |-> method,
      recommendation |-> recommendation_in, evaluations |-> evaluations_in,
      conflicts |-> CriticalConflicts(0), context |-> Unset] :
        method \in Methods, recommendation_in \in Recommendations,
        evaluations_in \in PanelEvaluations}

CallApplyResolutionMethod ==
    /\ call.method = "_apply_resolution_method"
    /\ result = Unset
    /\ result' = apply_resolution_method(call.resolution_method, call.recommendation,
                                         call.evaluations, call.conflicts, call.context)
    /\ UNCHANGED <<call, beside_probe>>

Calls ==
    EstimateCalls \cup MetricsCalls \cup ConflictCalls \cup SelectorCalls
    \cup ResolutionCalls

InitFunctions ==
    /\ config = BaseConfig
    /\ executives = <<>>
    /\ frameworks = <<>>
    /\ decision_history = <<>>
    /\ builder_history = <<>>
    /\ pending = <<>>
    /\ pc = "setup"
    /\ LocalsUnset
    /\ returned = Unset
    /\ error = ""
    /\ call \in Calls
    /\ result = Unset

NextFunctions ==
    \/ CallEstimateNewSupport
    \/ CallCalculateSupportMetrics
    \/ CallIdentifyConflicts
    \/ CallSelectResolutionMethod
    \/ CallApplyResolutionMethod

SpecFunctions == InitFunctions /\ [][NextFunctions]_vars

\* ------------------------------------------------------------------ claims

LowLevels == {"divided_opinion", "strong_disagreement"}
TopLevels == {"strong_consensus", "general_consensus", "majority_agreement"}

\* C1: a run calls build_consensus at most max_resolution_attempts times, the
\* loop is left once that many rounds are done, and the outcome's
\* resolution_attempts lies between 1 and max_resolution_attempts.
RoundsWithinBudget ==
    /\ build_calls <= config.max_resolution_attempts
    /\ (pc = "loop" /\ build_calls = config.max_resolution_attempts)
          => (ENABLED Decide /\ ~ENABLED EnterResolution)
    /\ returned # Unset =>
          /\ returned.resolution_attempts >= 1
          /\ returned.resolution_attempts <= config.max_resolution_attempts
          /\ pc = "done" => returned.resolution_attempts = build_calls

\* C1's case: a run that used its whole budget of MaxAttempts rounds and still
\* ends in disagreement.
BudgetSpent ==
    /\ pc = "done"
    /\ config.max_resolution_attempts = MaxAttempts
    /\ returned.resolution_attempts = MaxAttempts
    /\ returned.consensus.consensus_level \in LowLevels

\* C2: a further resolution round is started exactly when the latest consensus
\* level is divided_opinion or strong_disagreement and the round counter is
\* below max_resolution_attempts; a run that ends with the counter below the
\* maximum ends at strong_consensus, general_consensus or majority_agreement.
FurtherRoundIff ==
    /\ (build_calls >= 1 /\ pc \in {"revise", "gather"}) =>
          /\ consensus_outcome.consensus_level \in LowLevels
          /\ resolution_attempts < config.max_resolution_attempts
    /\ pc = "done" =>
          /\ ~(/\ returned.consensus.consensus_level \in LowLevels
               /\ returned.resolution_attempts < config.max_resolution_attempts)
          /\ returned.resolution_attempts < config.max_resolution_attempts
                => returned.consensus.consensus_level \in TopLevels
    /\ pc = "loop" =>
          (ENABLED EnterResolution
             <=> (/\ consensus_outcome.consensus_level \in LowLevels
                  /\ resolution_attempts < config.max_resolution_attempts))

\* C2's case: a run that needed a resolution round and left the loop early, at
\* majority_agreement or better.
EarlyExitAfterResolution ==
    /\ pc = "done"
    /\ returned.resolution_attempts >= 2
    /\ returned.resolution_attempts < config.max_resolution_attempts
    /\ returned.consensus.consensus_level \in TopLevels

\* C3: when the weighted support reaches the consensus threshold and no
\* conflict is critical, build_consensus returns the recommendation unchanged,
\* modified false, support_percentage equal to the weighted support it computed
\* and no resolution method applied, whether or not other conflicts were found.
DirectAcceptance ==
    pc = "loop" =>
        LET metrics == calculate_support_metrics(evaluations, participating_execs)
            conflicts == identify_conflicts(evaluations)
        IN (/\ PctGE(metrics.weighted_support, config.consensus_threshold)
            /\ conflicts.critical_conflicts = <<>>)
           => /\ consensus_outcome.recommendation = recommendation
              /\ consensus_outcome.modified_from_original = FALSE
              /\ consensus_outcome.support_percentage = metrics.weighted_support
              /\ consensus_outcome.resolution_method
                    = "Direct consensus without conflict resolution"
              /\ consensus_outcome = builder_history[Len(builder_history)]

\* C3's case: the threshold is reached with a non-critical conflict present.
DirectAcceptanceDespiteConflict ==
    /\ pc = "loop"
    /\ LET metrics == calculate_support_metrics(evaluations, participating_execs)
           conflicts == identify_conflicts(evaluations)
       IN /\ PctGE(metrics.weighted_support, config.consensus_threshold)
          /\ conflicts.critical_conflicts = <<>>
          /\ conflicts.all_conflicts # <<>>

\* An active executive holding a veto right over a domain analysed in the
\* returned recommendation evaluated it with agreement below VetoAgreement.
VetoCast ==
    \E i \in 1..Len(executives), k \in 1..Len(evaluations) :
        /\ executives[i].is_active
        /\ executives[i].veto_rights
              \cap DOMAIN returned.recommendation.domain_specific_analyses # {}
        /\ evaluations[k].evaluator_id = executives[i].name
        /\ evaluations[k].agreement_level < VetoAgreement

\* C4: with enable_veto on, a veto cast on the final recommendation sets
\* veto_applied and escalated_to_human in the outcome, whatever the support.
VetoEscalates ==
    (pc = "done" /\ config.enable_veto /\ VetoCast)
        => /\ returned.decision_metrics.veto_applied
           /\ returned.escalated_to_human

\* C4's case: a veto cast on a recommendation whose support is above the
\* human escalation threshold.
VetoOnSupportedRecommendation ==
    /\ pc = "done"
    /\ config.enable_veto
    /\ VetoCast
    /\ PctGE(returned.consensus.support_percentage, config.human_escalation_threshold)

\* C5: the consensus level, the support percentage and the recommendation of an
\* outcome are those the same run returns with the veto check disabled.
VetoChangesFlagsOnly ==
    pc = "done" =>
        LET without == decision_outcome([config EXCEPT !.enable_veto = FALSE],
                           executives, request, selected_executives, lead_executive,
                           framework, consensus_outcome, evaluations,
                           resolution_attempts)
        IN /\ returned.consensus.consensus_level = without.consensus.consensus_level
           /\ returned.consensus.support_percentage
                 = without.consensus.support_percentage
           /\ returned.decision_metrics.final_support_percentage
                 = without.decision_metrics.final_support_percentage
           /\ returned.recommendation = without.recommendation
           /\ returned.consensus.recommendation = without.consensus.recommendation
           /\ ~without.decision_metrics.veto_applied

\* C5's case: an outcome on which a veto was applied.
VetoApplied ==
    /\ pc = "done"
    /\ returned.decision_metrics.veto_applied
    /\ returned.consensus.consensus_level \in TopLevels

\* C6: a final support percentage below human_escalation_threshold escalates
\* the outcome, after any number of rounds.
LowSupportEscalates ==
    (/\ pc = "done"
     /\ PctLT(returned.consensus.support_percentage, config.human_escalation_threshold))
        => returned.escalated_to_human

\* C6's case: support below the threshold, no veto, and retry budget left.
LowSupportBeforeBudgetSpent ==
    /\ pc = "done"
    /\ PctLT(returned.consensus.support_percentage, config.human_escalation_threshold)
    /\ ~returned.decision_metrics.veto_applied
    /\ returned.resolution_attempts < config.max_resolution_attempts

\* C7: an evaluator call that raises or never returns is left out of the
\* round's evaluations, the round completes with the others and make_decision
\* still returns an outcome.
FailedEvaluatorLeftOut ==
    /\ error # "EvaluatorError"
    /\ (/\ pc = "gather"
        /\ \A i \in 1..Len(tasks) : tasks[i].status # "running"
        /\ \E i \in 1..Len(tasks) : tasks[i].status = "done")
          => ENABLED GatherReturns

\* The orders in which the calls of a round can complete.
CompletionOrders ==
    {order \in [1..Len(tasks) -> 1..Len(tasks)] :
        \A i, j \in 1..Len(tasks) : i # j => order[i] # order[j]}

\* C8: the evaluations of a round, and the consensus built from them, are the
\* same for every order in which the evaluator calls complete: one evaluation
\* per selected executive other than the lead, in selection order.
CompletionOrderIrrelevant ==
    pc \in {"build", "loop"} =>
        /\ \A order \in CompletionOrders :
              gathered_evaluations(tasks, order) = evaluations
        /\ [k \in 1..Len(evaluations) |-> evaluations[k].evaluator_id]
              = Pick([i \in 1..Len(selected_executives) |->
                         selected_executives[i].executive],
                     {selected_executives[i].executive :
                         i \in 1..Len(selected_executives)} \ {lead_executive})
        /\ pc = "loop" =>
              \A order \in CompletionOrders :
                  LET gathered == gathered_evaluations(tasks, order)
                  IN /\ calculate_support_metrics(gathered, participating_execs)
                          = calculate_support_metrics(evaluations, participating_execs)
                     /\ identify_conflicts(gathered) = identify_conflicts(evaluations)
                     /\ build_consensus(recommendation, gathered, request,
                                        participating_execs, config.consensus_threshold)
                          = consensus_outcome

\* C8's case: two evaluators that disagree, the second finishing first.
CompletedOutOfOrder ==
    /\ pc = "loop"
    /\ completed = <<2, 1>>
    /\ evaluations[1].agreement_level # evaluations[2].agreement_level

\* C9: the phases of a run do not overlap: build_consensus runs, the loop
\* condition is read and the proposer revises only when no evaluator call is
\* outstanding, and the calls of round r + 1 are made only after r consensus
\* builds.
PhasesDoNotOverlap ==
    /\ pc \in {"build", "loop", "revise", "done"} =>
          \A i \in 1..Len(tasks) : tasks[i].status = "done"
    /\ \A i \in 1..Len(tasks) :
          /\ tasks[i].status \in {"running", "hung", "raised"}
                => pc \in {"gather", "failed"}
          /\ pc # "failed" =>
                tasks[i].round = IF pc \in {"gather", "build"} THEN build_calls + 1
                                 ELSE build_calls
    /\ pc \in {"loop", "revise", "done"} =>
          /\ Len(builder_history) >= build_calls
          /\ consensus_outcome = builder_history[Len(builder_history)]
    /\ pc = "build" => Len(evaluations) = Len(tasks)

\* C9's case: the evaluator calls of a later round, one finished and one not.
LaterRoundUnderWay ==
    /\ pc = "gather"
    /\ build_calls >= 1
    /\ \E i, j \in 1..Len(tasks) :
          tasks[i].status = "done" /\ tasks[j].status = "running"

\* C10 as stated: every completed run appends its outcome to decision_history,
\* and nothing else changes the history.
EveryRunLogged ==
    [][IF pc = "loop" /\ pc' = "done"
       THEN decision_history' = Append(decision_history, returned')
       ELSE decision_history' = decision_history]_vars

\* C10, amended: with log_decisions on, every completed run appends exactly its
\* outcome to decision_history and nothing else changes the history, so n
\* completed runs leave n entries in completion order; with log_decisions off
\* the history never changes.
LoggedRunsAppendOnce ==
    [][IF config.log_decisions /\ pc = "loop" /\ pc' = "done"
       THEN decision_history' = Append(decision_history, returned')
       ELSE decision_history' = decision_history]_vars

\* C10's case: the second completed run of a logging orchestrator, its outcome
\* appended after the first run's.
SecondRunLogged ==
    /\ pc = "done"
    /\ config.log_decisions
    /\ Len(decision_history) = 2
    /\ decision_history[1].decision_id = 1
    /\ decision_history[2] = returned

\* The path build_consensus took for an outcome, read from the outcome.
PathOf(outcome) ==
    CASE outcome.resolution_method = "Direct consensus without conflict resolution"
            -> "direct"
      [] outcome.resolution_method = "Insufficient consensus without specific conflicts"
            -> "insufficient"
      [] OTHER -> "resolved"

\* C11: every build_consensus call appends exactly one record, its outcome, to
\* the builder's decision history, on each of its three paths, and leaves the
\* records of earlier calls as they were.
BuilderAppendsOnce ==
    [][/\ Len(builder_history') = Len(builder_history) + 1
       /\ SubSeq(builder_history', 1, Len(builder_history)) = builder_history
       /\ builder_history'[Len(builder_history')] = result']_vars

\* C11's case: a builder that recorded a direct consensus and then an outcome
\* of one of the other two paths.
TwoPathsRecorded ==
    /\ Len(builder_history) = 2
    /\ PathOf(builder_history[1]) = "direct"
    /\ PathOf(builder_history[2]) \in {"resolved", "insufficient"}
    /\ builder_history[2] = result

\* make_decision is being called.
CallStarts == pc \in {"setup", "idle"} /\ pc' \notin {"setup", "idle"}

\* C12: make_decision with no active executive to select fails before any
\* round starts: no analysis is asked of a proposer, no evaluator is called,
\* no consensus is built and both decision histories stay as they were, at the
\* failure and until the caller has the error.
NoExecutiveNoRound ==
    [][/\ (CallStarts /\ \A i \in 1..Len(executives) : ~executives[i].is_active)
            => /\ pc' = "failed"
               /\ error' \in {"ValueError", "StopIteration"}
               /\ returned' = Unset
               /\ primary_recommendation' = Unset
               /\ tasks' = <<>>
               /\ build_calls' = 0
               /\ decision_history' = decision_history
               /\ builder_history' = builder_history
       /\ (pc = "failed" /\ error \in {"ValueError", "StopIteration"})
            => /\ pc' = "idle"
               /\ returned' = Unset
               /\ decision_history' = decision_history
               /\ builder_history' = builder_history]_vars

\* C12's case: after a logged decision every executive was deactivated, and
\* the next request failed for want of an executive.
FailedForWantOfExecutive ==
    /\ pc = "failed"
    /\ error = "ValueError"
    /\ executives # <<>>
    /\ \A i \in 1..Len(executives) : ~executives[i].is_active
    /\ decision_history # <<>>
    /\ builder_history # <<>>

\* The consensus level C13 gives for a support of num/den hundredths.
LevelByThreshold(support) ==
    CASE support.num >= 90 * support.den -> "strong_consensus"
      [] support.num < 90 * support.den /\ support.num >= 75 * support.den
            -> "general_consensus"
      [] support.num < 75 * support.den /\ support.num >= 60 * support.den
            -> "majority_agreement"
      [] support.num < 60 * support.den /\ support.num >= 40 * support.den
            -> "divided_opinion"
      [] OTHER -> "strong_disagreement"

LevelRank(level) ==
    CASE level = "strong_disagreement" -> 0
      [] level = "divided_opinion" -> 1
      [] level = "majority_agreement" -> 2
      [] level = "general_consensus" -> 3
      [] level = "strong_consensus" -> 4

\* C13: every outcome of build_consensus, in every round and on every path,
\* carries the consensus level that the fixed thresholds give for its own
\* support percentage, and a higher support never gives a lower level.
LevelFollowsSupport ==
    /\ \A k \in 1..Len(builder_history) :
          builder_history[k].consensus_level
             = LevelByThreshold(builder_history[k].support_percentage)
    /\ consensus_outcome # Unset =>
          consensus_outcome.consensus_level
             = LevelByThreshold(consensus_outcome.support_percentage)
    \* the mapping itself does not depend on the state: it is examined once,
    \* before the first outcome
    /\ builder_history = <<>> =>
          \A a \in 0..99 :
             LevelRank(determine_consensus_level(Pct(a, 1)))
                <= LevelRank(determine_consensus_level(Pct(a + 1, 1)))

\* C13's case: three rounds of one run, the first resolved at one level and the
\* last accepted directly at another.
RoundsAtDifferentLevels ==
    /\ pc = "loop"
    /\ Len(builder_history) = 3
    /\ PathOf(builder_history[1]) = "resolved"
    /\ PathOf(builder_history[3]) = "direct"
    /\ builder_history[1].consensus_level # builder_history[3].consensus_level

\* C14: whatever the resolution method, the current support and the number of
\* critical conflicts, the estimated new support is at least the current
\* support and at most the larger of 0.95 and the current support.
EstimateWithinBounds ==
    call # Unset /\ call.method = "_estimate_new_support" /\ result # Unset =>
        /\ result.den = call.current_support.den
        /\ result.num >= call.current_support.num
        /\ result.num <= Max(SupportCap * result.den, call.current_support.num)

\* C14's case: an estimate for a support below the cap that, even with the
\* penalty for critical conflicts, is held at the cap.
EstimateHeldAtCap ==
    /\ call # Unset /\ call.method = "_estimate_new_support" /\ result # Unset
    /\ call.conflicts.critical_conflicts # <<>>
    /\ PctLT(call.current_support, SupportCap)
    /\ result.num = SupportCap * result.den

\* The total weight of the evaluations of a call of _calculate_support_metrics
\* that have a participation record.
MatchedWeight(evaluations_in, participating) ==
    SeqSum([i \in 1..Len(evaluations_in) |->
              LET at == {j \in 1..Len(participating) :
                           participating[j].executive_id = evaluations_in[i].evaluator_id}
              IN IF at = {} THEN 0
                 ELSE LET j == CHOOSE x \in at : \A y \in at : x <= y
                      IN participating[j].contribution_weight
                           * participating[j].expertise_relevance])

\* C15: for agreement levels and weights in [0, 1], the weighted and the
\* unweighted support of _calculate_support_metrics lie in [0, 1], also when no
\* evaluation has a participation record or every matching weight is zero.
SupportWithinUnitInterval ==
    call # Unset /\ call.method = "_calculate_support_metrics" /\ result # Unset =>
        \A support \in {result.weighted_support, result.unweighted_support} :
            /\ support.den > 0
            /\ support.num >= 0
            /\ support.num <= 100 * support.den

\* C15's case: evaluations with participation records whose weights are all
\* zero, beside records of executives who gave no evaluation.
SupportWithoutWeight ==
    /\ call # Unset /\ call.method = "_calculate_support_metrics" /\ result # Unset
    /\ call.evaluations # <<>>
    /\ \E j \in 1..Len(call.participating_executives) :
          call.participating_executives[j].executive_id = call.evaluations[1].evaluator_id
    /\ \E j \in 1..Len(call.participating_executives) :
          call.participating_executives[j].executive_id = "coo"
    /\ MatchedWeight(call.evaluations, call.participating_executives) = 0
    /\ result.weighted_support = result.unweighted_support
    /\ result.unweighted_support.num > 0

\* C16: the participation rate of _calculate_support_metrics is the number of
\* evaluations over the number of participation records when there is a
\* record, and 1.0 when there is none, for every evaluation set, the empty one
\* included.
ParticipationRateAsStated ==
    call # Unset /\ call.method = "_calculate_support_metrics" /\ result # Unset =>
        LET received == Len(call.evaluations)
            expected == Len(call.participating_executives)
            rate == result.participation_rate
        IN IF expected > 0
           THEN rate.num * expected = 100 * received * rate.den
           ELSE rate.num = 100 * rate.den

\* The evaluations of a call that list the concern with the lower-cased text
\* key, and the number of times they list it.
MentionedBy(evaluations_in, key) ==
    {i \in 1..Len(evaluations_in) :
        \E j \in 1..Len(evaluations_in[i].concerns) :
            Lower(evaluations_in[i].concerns[j]) = key}

MentionCount(evaluations_in, key) ==
    SeqSum([i \in 1..Len(evaluations_in) |->
              Cardinality({j \in 1..Len(evaluations_in[i].concerns) :
                             Lower(evaluations_in[i].concerns[j]) = key})])

\* C17: _identify_conflicts emits a shared_concern conflict for a concern text,
\* compared without regard to case, exactly when more than one evaluator
\* mentions it; the conflict is of medium severity if the mention count exceeds
\* a third of the evaluators and low otherwise, and is critical exactly when the
\* mention count exceeds half of the evaluators.
SharedConcernAsStated ==
    call # Unset /\ call.method = "_identify_conflicts" /\ result # Unset =>
        LET n == Len(call.evaluations)
            Emitted(key, conflicts) ==
                {k \in 1..Len(conflicts) :
                    /\ conflicts[k].type = "shared_concern"
                    /\ Lower(conflicts[k].description) = key}
        IN \A key \in {"cost", "risk"} :
              LET count == MentionCount(call.evaluations, key)
                  found == Emitted(key, result.all_conflicts)
              IN /\ found # {} <=> Cardinality(MentionedBy(call.evaluations, key)) > 1
                 /\ \A k \in found :
                       result.all_conflicts[k].severity
                          = IF 3 * count > n THEN "medium" ELSE "low"
                 /\ found # {} =>
                       (Emitted(key, result.critical_conflicts) # {} <=> 2 * count > n)

\* C18: every conflict among the key conflicts of a consensus outcome is of
\* high severity: the key conflicts are exactly the detected conflicts of high
\* severity, in the order of detection.
KeyConflictsAreHigh ==
    call # Unset /\ call.method = "build_consensus" =>
        LET detected == identify_conflicts(call.executive_evaluations).all_conflicts
            high == {detected[k] : k \in {j \in 1..Len(detected) :
                                             detected[j].severity = "high"}}
        IN /\ \A k \in 1..Len(result.key_conflicts) :
                 result.key_conflicts[k].severity = "high"
           /\ result.key_conflicts = Pick(detected, high)

\* C19: in every outcome of build_consensus, on each of its paths, the
\* supporting executives are the evaluators with agreement above 0.6, the
\* opposing ones those with agreement below 0.4 and the abstaining ones the
\* rest, each in the order of the evaluations.
ListsClassifyEvaluators ==
    call # Unset /\ call.method = "build_consensus" =>
        LET given == call.executive_evaluations
            Ids(levels) == Flatten([i \in 1..Len(given) |->
                               IF given[i].agreement_level \in levels
                               THEN <<given[i].evaluator_id>> ELSE <<>>])
        IN /\ result.supporting_executives = Ids(61..100)
           /\ result.opposing_executives = Ids(0..39)
           /\ result.abstaining_executives = Ids(40..60)

\* The number of conflicts of a type in a conflict summary.
ConflictsOfType(summary, type) ==
    Cardinality({k \in 1..Len(summary.all_conflicts) :
                    summary.all_conflicts[k].type = type})

\* C20: _select_resolution_method returns one method by fixed priority:
\* integrative if more than half of the conflicts are shared concerns;
\* otherwise structured_debate if there is a polarized opinion; otherwise
\* weighted_voting if there is a role-based conflict; otherwise evidence_based.
SelectorFollowsPriority ==
    call # Unset /\ call.method = "_select_resolution_method" /\ result # Unset =>
        LET shared == ConflictsOfType(call.conflicts, "shared_concern")
            polarized == ConflictsOfType(call.conflicts, "polarized_opinion")
            by_role == ConflictsOfType(call.conflicts, "role_based")
            total == Len(call.conflicts.all_conflicts)
        IN /\ result.value \in Methods
           /\ result.value = "integrative" <=> 2 * shared > total
           /\ result.value = "structured_debate" <=> 2 * shared <= total /\ polarized > 0
           /\ result.value = "weighted_voting" <=>
                 2 * shared <= total /\ polarized = 0 /\ by_role > 0
           /\ result.value = "evidence_based" <=>
                 2 * shared <= total /\ polarized = 0 /\ by_role = 0

\* C20's case: shared concerns are exactly half of the conflicts, and beside
\* them stand a role-based conflict and, after it, a polarized opinion: the
\* selector answers structured_debate.
EarlierRuleWins ==
    /\ call # Unset /\ call.method = "_select_resolution_method" /\ result # Unset
    /\ Len(call.conflicts.all_conflicts) = 4
    /\ ConflictsOfType(call.conflicts, "shared_concern") = 2
    /\ call.conflicts.all_conflicts[3].type = "role_based"
    /\ call.conflicts.all_conflicts[4].type = "polarized_opinion"
    /\ result.value = "structured_debate"

\* The conflicts of a type in a list of conflicts, as positions in the list.
OfType(conflicts, type) ==
    {k \in 1..Len(conflicts) : conflicts[k].type = type}

\* C21: the polarization pass emits one polarized_opinion conflict when some
\* evaluator agrees at 0.7 or more and some evaluator at 0.3 or less, and none
\* otherwise; the conflict is of high severity and critical exactly when both
\* groups have two members or more, and of medium severity and not critical
\* otherwise.
PolarizationAsStated ==
    call # Unset /\ call.method = "_identify_conflicts" /\ result # Unset =>
        LET given == call.evaluations
            for == {i \in 1..Len(given) : given[i].agreement_level >= 70}
            against == {i \in 1..Len(given) : given[i].agreement_level <= 30}
            emitted == OfType(result.all_conflicts, "polarized_opinion")
            critical == OfType(result.critical_conflicts, "polarized_opinion")
            both == Cardinality(for) >= 2 /\ Cardinality(against) >= 2
        IN IF for # {} /\ against # {}
           THEN /\ Cardinality(emitted) = 1
                /\ \A k \in emitted :
                      result.all_conflicts[k].severity
                         = IF both THEN "high" ELSE "medium"
                /\ Cardinality(critical) = IF both THEN 1 ELSE 0
                /\ \A k \in critical :
                      result.critical_conflicts[k].severity = "high"
           ELSE emitted = {} /\ critical = {}

\* C21's case: four evaluators, two for and two against, whose divide is
\* reported as a critical conflict of high severity.
TwoAgainstTwo ==
    /\ call # Unset /\ call.method = "_identify_conflicts" /\ result # Unset
    /\ Len(call.evaluations) = 4
    /\ Cardinality({i \in 1..4 : call.evaluations[i].agreement_level >= 70}) = 2
    /\ Cardinality({i \in 1..4 : call.evaluations[i].agreement_level <= 30}) = 2
    /\ \E k \in OfType(result.critical_conflicts, "polarized_opinion") :
          /\ result.critical_conflicts[k].severity = "high"
          /\ Len(result.critical_conflicts[k].supporting_executives) = 2
          /\ Len(result.critical_conflicts[k].opposing_executives) = 2

\* The roles present in the evaluations of a call, and the sum and the number
\* of the agreement levels of a role.
RolesPresent(given) == {given[i].evaluator_role : i \in 1..Len(given)}

RoleTotal(given, role) ==
    SeqSum([i \in 1..Len(given) |->
              IF given[i].evaluator_role = role THEN given[i].agreement_level ELSE 0])

RoleSize(given, role) ==
    Cardinality({i \in 1..Len(given) : given[i].evaluator_role = role})

\* C22: for every pair of distinct roles among the evaluations, one role_based
\* conflict is emitted if the means of agreement of the two roles differ by
\* more than 0.4 and none otherwise; it names the role with the higher mean as
\* supporting and the other as opposing, and is of high severity and critical
\* exactly when the difference exceeds 0.6, of medium severity and not critical
\* otherwise.
RoleConflictsAsStated ==
    call # Unset /\ call.method = "_identify_conflicts" /\ result # Unset =>
        LET given == call.evaluations
            roles == RolesPresent(given)
            \* the means m1 = t1/n1 and m2 = t2/n2 compared as t1*n2 and t2*n1
            Scaled(r1, r2) == RoleTotal(given, r1) * RoleSize(given, r2)
            Both(r1, r2) == RoleSize(given, r1) * RoleSize(given, r2)
            Gap(r1, r2) == Abs(Scaled(r1, r2) - Scaled(r2, r1))
            Between(conflicts, r1, r2) ==
                {k \in OfType(conflicts, "role_based") :
                    {conflicts[k].supporting_role, conflicts[k].opposing_role} = {r1, r2}}
        IN /\ \A k \in OfType(result.all_conflicts, "role_based") :
                 /\ result.all_conflicts[k].supporting_role \in roles
                 /\ result.all_conflicts[k].opposing_role \in roles
                 /\ result.all_conflicts[k].supporting_role
                       # result.all_conflicts[k].opposing_role
           /\ \A r1, r2 \in roles :
                 r1 # r2 =>
                   LET emitted == Between(result.all_conflicts, r1, r2)
                       critical == Between(result.critical_conflicts, r1, r2)
                       high == Gap(r1, r2) > 60 * Both(r1, r2)
                   IN IF Gap(r1, r2) > 40 * Both(r1, r2)
                      THEN /\ Cardinality(emitted) = 1
                           /\ \A k \in emitted :
                                 /\ Scaled(result.all_conflicts[k].supporting_role,
                                           result.all_conflicts[k].opposing_role)
                                      > Scaled(result.all_conflicts[k].opposing_role,
                                               result.all_conflicts[k].supporting_role)
                                 /\ result.all_conflicts[k].severity
                                      = IF high THEN "high" ELSE "medium"
                           /\ Cardinality(critical) = IF high THEN 1 ELSE 0
                      ELSE emitted = {} /\ critical = {}

\* C22's case: three roles, of which the later-named of one pair supports
\* against the other by more than 0.6, while another pair differs by exactly
\* 0.4, which is no conflict.
ThreeRolesCompared ==
    /\ call # Unset /\ call.method = "_identify_conflicts" /\ result # Unset
    /\ RolesPresent(call.evaluations) = {"finance", "risk", "strategy"}
    /\ \E k \in OfType(result.critical_conflicts, "role_based") :
          /\ result.critical_conflicts[k].supporting_role = "strategy"
          /\ result.critical_conflicts[k].opposing_role = "finance"
          /\ result.critical_conflicts[k].severity = "high"
    /\ Cardinality(OfType(result.all_conflicts, "role_based")) = 1
    /\ \E r1, r2 \in RolesPresent(call.evaluations) :
          RoleTotal(call.evaluations, r1) * RoleSize(call.evaluations, r2)
             - RoleTotal(call.evaluations, r2) * RoleSize(call.evaluations, r1)
               = 40 * RoleSize(call.evaluations, r1) * RoleSize(call.evaluations, r2)

\* C23: for fewer than two evaluations _identify_conflicts returns no conflict
\* and no critical conflict, whatever the concerns, repeated ones included, and
\* the agreement level of the evaluation.
LoneEvaluationHasNoConflict ==
    call # Unset /\ call.method = "_identify_conflicts" /\ result # Unset
                 /\ Len(call.evaluations) < 2 =>
        /\ result.all_conflicts = <<>>
        /\ result.critical_conflicts = <<>>

\* C23's case: a single evaluation that lists the same concern twice.
LoneEvaluationRepeatsConcern ==
    /\ call # Unset /\ call.method = "_identify_conflicts" /\ result # Unset
    /\ Len(call.evaluations) = 1
    /\ call.evaluations[1].concerns = <<"cost", "Cost">>
    /\ result = [all_conflicts |-> <<>>, critical_conflicts |-> <<>>]

\* C24: _apply_resolution_method returns a copy of the recommendation that
\* equals it in every field but for an added annotation, one new entry of the
\* domain-specific analyses or one appended uncertainty factor: nothing the
\* recommendation held is removed or replaced.
AnnotationOnlyAdds ==
    call # Unset /\ call.method = "_apply_resolution_method" /\ result # Unset =>
        LET given == call.recommendation
            annotated == {"domain_specific_analyses", "uncertainty_factors"}
            analyses_in == given.domain_specific_analyses
            analyses_out == result.domain_specific_analyses
            added == (DOMAIN analyses_out) \ (DOMAIN analyses_in)
            appended == Len(result.uncertainty_factors) - Len(given.uncertainty_factors)
        IN /\ DOMAIN result = DOMAIN given
           /\ \A field \in (DOMAIN given) \ annotated : result[field] = given[field]
           /\ \A key \in DOMAIN analyses_in :
                 key \in DOMAIN analyses_out /\ analyses_out[key] = analyses_in[key]
           /\ appended >= 0
           /\ SubSeq(result.uncertainty_factors, 1, Len(given.uncertainty_factors))
                 = given.uncertainty_factors
           /\ Cardinality(added) + appended <= 1

\* C25: an outcome is escalated to a human only for low support or for a
\* veto: escalated_to_human implies that the final support percentage is below
\* human_escalation_threshold or that a veto was applied. A retry budget spent
\* at divided_opinion or strong_disagreement does not by itself escalate.
EscalationHasACause ==
    (pc = "done" /\ returned.escalated_to_human)
        => \/ PctLT(returned.decision_metrics.final_support_percentage,
                    config.human_escalation_threshold)
           \/ returned.decision_metrics.veto_applied

\* C25's case: the retry budget spent in several rounds, the level still low,
\* the support not below the threshold, no veto: the outcome is not escalated.
SpentBudgetNotEscalated ==
    /\ pc = "done"
    /\ returned.resolution_attempts = config.max_resolution_attempts
    /\ returned.resolution_attempts > 1
    /\ returned.consensus.consensus_level \in LowLevels
    /\ ~returned.decision_metrics.veto_applied
    /\ ~returned.escalated_to_human

\* The selected executives other than the lead, in selection order.
Reviewers ==
    Flatten([i \in 1..Len(selected_executives) |->
               IF selected_executives[i].executive = lead_executive THEN <<>>
               ELSE <<selected_executives[i].executive>>])

\* C26: in every round the evaluations are those of the selected executives
\* other than the lead, one each: the lead gives no evaluation, its
\* participation record adds nothing to the weighted support, and it never
\* casts the veto, whatever veto rights it holds.
LeadStandsAside ==
    /\ pc = "gather" => [i \in 1..Len(tasks) |-> tasks[i].executive] = Reviewers
    /\ pc \in {"build", "loop", "revise", "done"} =>
          /\ [k \in 1..Len(evaluations) |-> evaluations[k].evaluator_id] = Reviewers
          /\ \A k \in 1..Len(evaluations) : evaluations[k].evaluator_id # lead_executive
          /\ LET others == Pick(participating_execs,
                                {participating_execs[j] :
                                    j \in {x \in 1..Len(participating_execs) :
                                             participating_execs[x].executive_id
                                                # lead_executive}})
             IN calculate_support_metrics(evaluations, participating_execs).weighted_support
                  = calculate_support_metrics(evaluations, others).weighted_support
    /\ pc \in {"loop", "done"} =>
          LET veto_result == check_for_vetos(config.enable_veto, executives,
                                             consensus_outcome, evaluations)
          IN veto_result.veto_applied => veto_result.veto_executive # lead_executive

\* C26's case: a lead with a veto right over a domain analysed in the returned
\* recommendation and a participation record of positive weight, reviewed by
\* others of whom none casts a veto.
LeadHoldsVetoRight ==
    /\ pc = "done"
    /\ config.enable_veto
    /\ evaluations # <<>>
    /\ \E i \in 1..Len(executives) :
          /\ executives[i].name = lead_executive
          /\ executives[i].is_active
          /\ executives[i].veto_rights
                \cap DOMAIN returned.recommendation.domain_specific_analyses # {}
    /\ \E j \in 1..Len(participating_execs) :
          /\ participating_execs[j].executive_id = lead_executive
          /\ participating_execs[j].contribution_weight >= LeadWeightFloor
    /\ ~returned.decision_metrics.veto_applied

\* C27: when a single executive is selected, and so leads, every round has no
\* evaluation, support 0 and the level strong_disagreement; the run makes
\* exactly max_resolution_attempts rounds and, with a human_escalation_threshold
\* above 0, its outcome is escalated.
LoneLeadRunsOutTheBudget ==
    Len(selected_executives) = 1 =>
        /\ pc = "gather" => tasks = <<>>
        /\ pc \in {"build", "loop", "revise", "done"} => evaluations = <<>>
        /\ pc \in {"loop", "revise", "done"} \/ (pc = "gather" /\ build_calls > 0) =>
              /\ consensus_outcome.support_percentage.num = 0
              /\ consensus_outcome.consensus_level = "strong_disagreement"
              /\ builder_history[Len(builder_history)] = consensus_outcome
        /\ pc = "revise" => resolution_attempts < config.max_resolution_attempts
        /\ pc = "done" =>
              /\ build_calls = config.max_resolution_attempts
              /\ returned.resolution_attempts = config.max_resolution_attempts
              /\ returned.consensus.consensus_level = "strong_disagreement"
              /\ returned.decision_metrics.final_support_percentage.num = 0
              /\ config.human_escalation_threshold > 0 => returned.escalated_to_human

\* C27's case: a run of MaxAttempts rounds led by the only selected executive,
\* escalated at its end.
LoneLeadEscalated ==
    /\ pc = "done"
    /\ Len(selected_executives) = 1
    /\ evaluations = <<>>
    /\ config.max_resolution_attempts = MaxAttempts
    /\ build_calls = MaxAttempts
    /\ returned.escalated_to_human

\* C28: the method recorded in an outcome for which build_consensus applied a
\* resolution is integrative, structured_debate or weighted_voting: neither
\* evidence_based nor any of the other four methods is ever selected.
ResolvedByOneOfThree ==
    /\ \A k \in 1..Len(builder_history) :
          PathOf(builder_history[k]) = "resolved" =>
              builder_history[k].resolution_method
                  \in {"integrative", "structured_debate", "weighted_voting"}
    /\ call # Unset /\ call.method = "build_consensus" =>
          LET conflicts == identify_conflicts(call.executive_evaluations)
          IN conflicts.all_conflicts # <<>> =>
                select_resolution_method(conflicts)
                    \in {"integrative", "structured_debate", "weighted_voting"}

\* C28's case: two resolutions by different methods, the later by weighted
\* voting on conflicts of which none is polarized and half are shared concerns.
ResolvedByVoting ==
    /\ Len(builder_history) = 2
    /\ PathOf(builder_history[1]) = "resolved"
    /\ builder_history[1].resolution_method # "weighted_voting"
    /\ builder_history[2].resolution_method = "weighted_voting"
    /\ LET conflicts == identify_conflicts(call.executive_evaluations).all_conflicts
       IN /\ Len(conflicts) = 2
          /\ conflicts[1].type = "shared_concern"
          /\ conflicts[2].type = "role_based"

\* C29: an outcome of build_consensus that reports modified_from_original
\* carries a recommendation that differs from the one passed in by an added
\* annotation at least; an outcome whose recommendation has the content of the
\* input is never reported as modified.
ModifiedMeansAnnotated ==
    call # Unset /\ call.method = "build_consensus" /\ result.modified_from_original =>
        /\ result.recommendation # Plan
        /\ \/ DOMAIN result.recommendation.domain_specific_analyses
                 # DOMAIN Plan.domain_specific_analyses
           \/ Len(result.recommendation.uncertainty_factors)
                 > Len(Plan.uncertainty_factors)

\* C30: in every resolution round the proposer revises the primary
\* recommendation on the evaluations of the round just made: the revision is
\* one revision of the original, never a revision of an earlier revision or of
\* the recommendation the consensus builder returned, and the original stays as
\* it was.
RevisionsStartFromOriginal ==
    [][(pc = "revise" /\ pc' = "gather") =>
          /\ recommendation' \in Revisions(primary_recommendation, evaluations)
          /\ recommendation'.body = <<"revision of">> \o primary_recommendation.body
          /\ primary_recommendation' = primary_recommendation
          /\ evaluations = [i \in 1..Len(tasks) |-> tasks[i].result]
          /\ \A i \in 1..Len(tasks) : tasks[i].round = resolution_attempts
          /\ \A i \in 1..Len(tasks') : tasks'[i].round = resolution_attempts + 1]_vars

\* C30's case: a third round under way on a revision of the original, after a
\* second round on another revision which the consensus builder annotated.
ThirdRoundOnFreshRevision ==
    /\ pc = "gather"
    /\ build_calls = 2
    /\ consensus_outcome.modified_from_original
    /\ consensus_outcome.recommendation # recommendation
    /\ builder_history[Len(builder_history)] = consensus_outcome
    /\ recommendation.body = <<"revision of">> \o primary_recommendation.body
    /\ recommendation.domain_specific_analyses
          # primary_recommendation.domain_specific_analyses

====
